---- MODULE Spec2Model ----
(***************************************************************************)
(* Volatility-smirk pipeline of the trading bot:                           *)
(*   scripts/volatility_analysis/smirk_analyzer.py  SmirkAnalyzer          *)
(*   scripts/strategy/strategy.py                   TradingStrategy        *)
(*   scripts/manager/agent_manager.py               AgentManager           *)
(*                                                                         *)
(* Numbers.  Python floats are modelled as exact fixed-point integers with *)
(* Scale units per 1.0.  Scale is divisible by 1000 and by every bucket    *)
(* size up to 6, so implied volatilities and thresholds given with three   *)
(* decimals, and the means of up to six of them, are exact.  Prices are    *)
(* whole currency units.  An absent value (None, NaN) is the empty tuple,  *)
(* a present value v is <<v>>.  A Python dict is a function from its keys. *)
(***************************************************************************)
EXTENDS Integers, Sequences, FiniteSets, TLC

VARIABLES
    pc,           \* position of the direct caller: "idle", "analyzed", "signalled"
    smirk_call,   \* last analyze_smirk call: arguments and frame
    signal_call,  \* last generate_signals_from_smirk call: arguments and return value
    risk_call,    \* last kelly_position_size or compute_risk_budget call
    manager_config,             \* AgentManager.config
    cycle_pc,                   \* position of each caller of run_trading_cycle
    options_data_queue,         \* AgentManager.options_data_queue
    volatility_analysis_queue,  \* AgentManager.volatility_analysis_queue
    signal_queue,               \* AgentManager.signal_queue
    trade_queue,                \* AgentManager.trade_queue
    trade_history,              \* rows of the trade_history table
    cycle_signals,              \* each caller's local `signals` of run_trading_cycle
    cycle_calls,                \* the methods each caller's run_trading_cycle has called
    running,                    \* AgentManager.running
    fetch_log,                  \* the fetch of this cycle: requests and chains queued
    analysis_log,               \* frames of the analyze_smirk calls of this cycle
    signal_log,                 \* the items handled by generate_trading_signals
    execution_log,              \* the execute_trades call of this cycle
    portfolio_tracker,          \* AgentManager.portfolio_tracker: balance and open_trades
    wrapper_call,               \* a call of a function wrapped by retry or retry_with_result
    deribit,                    \* the clock, the cache directory and the calls of the Deribit client
    strategy_manager,           \* the StrategyManager, the trade table it reads and its last check
    scheduler                   \* the Scheduler: consumers, channel queues, dispatch tasks and logs

vars == <<pc, smirk_call, signal_call, risk_call, manager_config, cycle_pc,
          options_data_queue, volatility_analysis_queue, signal_queue,
          trade_queue, trade_history, cycle_signals, cycle_calls, running,
          fetch_log, analysis_log, signal_log, execution_log,
          portfolio_tracker, wrapper_call, deribit,
          strategy_manager, scheduler>>

directVars == <<pc, smirk_call, signal_call, risk_call>>
cycleVars == <<manager_config, portfolio_tracker, cycle_pc, options_data_queue,
               volatility_analysis_queue, signal_queue, trade_queue,
               trade_history, cycle_signals, cycle_calls, running, fetch_log,
               analysis_log, signal_log, execution_log>>

-----------------------------------------------------------------------------
(* Fixed-point numbers and Python values *)

Scale == 60 * 1000

\* one thousandth, in Scale units
Milli == Scale \div 1000

\* m thousandths, in Scale units: D(20) is 0.02
D(m) == m * Milli

\* price * factor for a factor given in Scale units that is a whole number of
\* thousandths; the product is in thousandths of a currency unit
Times(price, factor) == price * (factor \div Milli)

None == << >>
NaN == << >>
Some(v) == <<v>>
Val(o) == o[1]

Min(a, b) == IF a <= b THEN a ELSE b
\* Abs without the sign change
Abs_Identity(a) == a

Abs(a) == IF a < 0 THEN -a ELSE a

\* dict.get(k, default)
Get(d, k, default) == IF k \in DOMAIN d THEN d[k] ELSE default

\* the config argument when the caller passes none (config=None)
NoConfig == [none |-> TRUE]
EmptyDict == << >>

\* truth value of `config` in `if config:`: None and {} are false
Truthy(config) == config # NoConfig /\ DOMAIN config # {}

RECURSIVE Sum(_)
Sum(s) == IF s = << >> THEN 0 ELSE Head(s) + Sum(Tail(s))

\* np.mean of a non-empty list
Mean(s) == Sum(s) \div Len(s)

\* round(x, 2): nearest hundredth, ties to the even hundredth
Round2(x) ==
    LET cent == Scale \div 100
        q == x \div cent
        r == x % cent
    IN  IF 2 * r < cent THEN q * cent
        ELSE IF 2 * r > cent THEN (q + 1) * cent
        ELSE IF q % 2 = 0 THEN q * cent ELSE (q + 1) * cent

-----------------------------------------------------------------------------
(* SmirkAnalyzer.analyze_smirk *)

\* a moneyness threshold of 0.5% instead of 2%
atm_threshold_percent_Half == D(5)

atm_threshold_percent == D(20)

\* line 36: contracts with no valid IV are skipped
ValidIV(contract) ==
    contract.implied_volatility # None /\ Val(contract.implied_volatility) > 0

\* IsOtmCall with an inclusive strike comparison
IsOtmCall_Inclusive(contract, spot_price) ==
    /\ ValidIV(contract)
    /\ contract.contract_type = "call"
    /\ contract.strike_price * 1000 >= Times(spot_price, Scale + atm_threshold_percent)

\* line 41: strike > spot * (1 + atm_threshold_percent)
IsOtmCall(contract, spot_price) ==
    /\ ValidIV(contract)
    /\ contract.contract_type = "call"
    /\ contract.strike_price * 1000 > Times(spot_price, Scale + atm_threshold_percent)

\* line 44 (elif): strike < spot * (1 - atm_threshold_percent)
IsOtmPut(contract, spot_price) ==
    /\ ValidIV(contract)
    /\ ~IsOtmCall(contract, spot_price)
    /\ contract.contract_type = "put"
    /\ contract.strike_price * 1000 < Times(spot_price, Scale - atm_threshold_percent)

RECURSIVE BucketIVs(_, _, _)
BucketIVs(contracts, spot_price, side) ==
    IF contracts = << >> THEN << >>
    ELSE LET c == Head(contracts)
             rest == BucketIVs(Tail(contracts), spot_price, side)
             hit == IF side = "call" THEN IsOtmCall(c, spot_price)
                                     ELSE IsOtmPut(c, spot_price)
         IN  IF hit THEN <<Val(c.implied_volatility)>> \o rest ELSE rest

\* SkewMetric that yields 0 instead of NaN when both buckets are empty
SkewMetric_ZeroWhenEmpty(otm_call_ivs, otm_put_ivs) ==
    IF otm_call_ivs # << >> /\ otm_put_ivs # << >>
        THEN Some(Mean(otm_call_ivs) - Mean(otm_put_ivs))
    ELSE IF otm_call_ivs # << >> THEN Some(D(100))
    ELSE IF otm_put_ivs # << >> THEN Some(-D(100))
    ELSE Some(0)

\* lines 47-56
SkewMetric(otm_call_ivs, otm_put_ivs) ==
    LET avg_otm_call_iv == IF otm_call_ivs # << >> THEN Some(Mean(otm_call_ivs)) ELSE NaN
        avg_otm_put_iv == IF otm_put_ivs # << >> THEN Some(Mean(otm_put_ivs)) ELSE NaN
    IN  IF avg_otm_call_iv # NaN /\ avg_otm_put_iv # NaN
            THEN Some(Val(avg_otm_call_iv) - Val(avg_otm_put_iv))
        ELSE IF avg_otm_call_iv # NaN THEN Some(D(100))
        ELSE IF avg_otm_put_iv # NaN THEN Some(-D(100))
        ELSE NaN

\* lines 65-68: the thresholds analyze_smirk reads from its config argument
ReadThresholds(config) ==
    LET thresholds == Get(Get(config, "volatility_analysis", EmptyDict),
                          "smirk_interpretation_thresholds", EmptyDict)
    IN  [bullish_threshold |-> Get(thresholds, "bullish_skew_diff", D(20)),
         bearish_threshold |-> Get(thresholds, "bearish_skew_diff", -D(20)),
         min_confidence_threshold |-> Get(thresholds, "min_confidence", D(600))]

\* ClassifyWithThresholds without the 0.95 ceiling
ClassifyWithThresholds_NoCeiling(skew_metric, t) ==
    IF skew_metric # NaN
    THEN IF Val(skew_metric) > t.bullish_threshold
         THEN [sentiment_label |-> "bullish",
               calculated_confidence |->
                   t.min_confidence_threshold
                       + (Val(skew_metric) - t.bullish_threshold) * 2]
         ELSE IF Val(skew_metric) < t.bearish_threshold
         THEN [sentiment_label |-> "bearish",
               calculated_confidence |->
                   t.min_confidence_threshold
                       + Abs(Val(skew_metric) - t.bearish_threshold) * 2]
         ELSE [sentiment_label |-> "neutral",
               calculated_confidence |-> t.min_confidence_threshold - D(100)]
    ELSE [sentiment_label |-> "neutral", calculated_confidence |-> D(400)]

\* lines 70-84: classification under thresholds
ClassifyWithThresholds(skew_metric, t) ==
    IF skew_metric # NaN
    THEN IF Val(skew_metric) > t.bullish_threshold
         THEN [sentiment_label |-> "bullish",
               calculated_confidence |->
                   Min(D(950), t.min_confidence_threshold
                               + (Val(skew_metric) - t.bullish_threshold) * 2)]
         ELSE IF Val(skew_metric) < t.bearish_threshold
         THEN [sentiment_label |-> "bearish",
               calculated_confidence |->
                   Min(D(950), t.min_confidence_threshold
                               + Abs(Val(skew_metric) - t.bearish_threshold) * 2)]
         ELSE [sentiment_label |-> "neutral",
               calculated_confidence |-> t.min_confidence_threshold - D(100)]
    ELSE [sentiment_label |-> "neutral", calculated_confidence |-> D(400)]

\* lines 85-88: classification when `config` is None or empty
ClassifyNoConfig(skew_metric) ==
    IF skew_metric # NaN /\ Val(skew_metric) > D(20)
        THEN [sentiment_label |-> "bullish", calculated_confidence |-> D(650)]
    ELSE IF skew_metric # NaN /\ Val(skew_metric) < -D(20)
        THEN [sentiment_label |-> "bearish", calculated_confidence |-> D(650)]
    ELSE [sentiment_label |-> "neutral", calculated_confidence |-> D(500)]

\* lines 59-88
Classify(skew_metric, config) ==
    IF Truthy(config)
    THEN ClassifyWithThresholds(skew_metric, ReadThresholds(config))
    ELSE ClassifyNoConfig(skew_metric)

\* The format specifications float.__format__ accepts among those the module uses
FormatSpecValid(format_spec) == format_spec \in {".2f", ".4f"}

\* lines 90-92: the format specifications of the four values in the log line.
\* Everything after the first colon of a replacement field is the format
\* specification, so the conditional is part of it and not an expression.
LogLineFormatSpecs ==
    <<".4f if not np.isnan(avg_otm_call_iv) else 'N/A'",
      ".4f if not np.isnan(avg_otm_put_iv) else 'N/A'",
      ".4f if not np.isnan(skew_metric) else 'N/A'",
      ".2f">>

\* lines 90-92: formatting the log line raises ValueError on an invalid specification
LogLineRaises ==
    \E i \in 1..Len(LogLineFormatSpecs) : ~FormatSpecValid(LogLineFormatSpecs[i])

\* lines 94-109: the VolatilitySmirkResult returned
VolatilitySmirkResult(options_data, otm_call_ivs, otm_put_ivs, skew_metric, class) ==
    [skewness_metric |-> skew_metric,
     sentiment_label |-> class.sentiment_label,
     confidence |-> Round2(class.calculated_confidence),
     details |-> [spot_price_at_analysis |-> options_data.spot_price,
                  num_otm_calls |-> Len(otm_call_ivs),
                  num_otm_puts |-> Len(otm_put_ivs)]]

\* lines 14-109: the frame of one call, as it stands when the call ends, whether
\* by the exception of the log line or by the return
analyze_smirk(options_data, config) ==
    LET otm_call_ivs == BucketIVs(options_data.contracts, options_data.spot_price, "call")
        otm_put_ivs == BucketIVs(options_data.contracts, options_data.spot_price, "put")
        skew_metric == SkewMetric(otm_call_ivs, otm_put_ivs)
        class == Classify(skew_metric, config)
    IN  [otm_call_ivs |-> otm_call_ivs,
         otm_put_ivs |-> otm_put_ivs,
         skew_metric |-> skew_metric,
         sentiment_label |-> class.sentiment_label,
         calculated_confidence |-> class.calculated_confidence,
         raised |-> LogLineRaises,
         result |-> IF LogLineRaises THEN None
                    ELSE Some(VolatilitySmirkResult(options_data, otm_call_ivs,
                                                    otm_put_ivs, skew_metric, class))]

-----------------------------------------------------------------------------
(* TradingStrategy.generate_signals_from_smirk *)

\* lines 113-114: config.get("strategy", {}).get(key, 0.7) if config else 0.7
ConfidenceThreshold(config, key) ==
    IF Truthy(config) THEN Get(Get(config, "strategy", EmptyDict), key, D(700))
    ELSE D(700)

\* SignalAction with strict confidence comparisons
SignalAction_Strict(smirk_result, config) ==
    IF /\ smirk_result.sentiment_label = "bullish"
       /\ smirk_result.confidence
              > ConfidenceThreshold(config, "smirk_bullish_confidence_min")
        THEN 1
    ELSE IF /\ smirk_result.sentiment_label = "bearish"
            /\ smirk_result.confidence
                   > ConfidenceThreshold(config, "smirk_bearish_confidence_min")
        THEN -1
    ELSE 0

\* lines 109-119: -1 SELL, 0 HOLD, 1 BUY
SignalAction(smirk_result, config) ==
    LET bullish_confidence_threshold ==
            ConfidenceThreshold(config, "smirk_bullish_confidence_min")
        bearish_confidence_threshold ==
            ConfidenceThreshold(config, "smirk_bearish_confidence_min")
    IN  IF /\ smirk_result.sentiment_label = "bullish"
           /\ smirk_result.confidence >= bullish_confidence_threshold
            THEN 1
        ELSE IF /\ smirk_result.sentiment_label = "bearish"
                /\ smirk_result.confidence >= bearish_confidence_threshold
            THEN -1
        ELSE 0

\* lines 96-129: the TradingSignal returned, or None
generate_signals_from_smirk(spot_price, smirk_result, config) ==
    LET signal_action == SignalAction(smirk_result, config)
    IN  IF signal_action # 0
        THEN Some([price |-> spot_price,
                   signal |-> signal_action,
                   confidence |-> smirk_result.confidence,
                   source |-> "volatility_smirk_strategy"])
        ELSE None

-----------------------------------------------------------------------------
(* Inputs of the direct calls *)

MaxContracts == 2

SpotPrices == {10000}
Strikes == {9700, 9800, 10200, 10300}
ContractTypes == {"call", "put"}
ImpliedVols == {None, Some(0), Some(D(300)), Some(D(700))}

Contract(strike, type, iv) ==
    [strike_price |-> strike, contract_type |-> type, implied_volatility |-> iv]

\* every contract with a positive IV, and the contracts without one at the
\* strikes where their type would be out of the money
ContractKinds ==
    {c \in [strike_price : Strikes, contract_type : ContractTypes,
            implied_volatility : ImpliedVols] :
        \/ ValidIV(c)
        \/ c.contract_type = "call" /\ c.strike_price = 10300
        \/ c.contract_type = "put" /\ c.strike_price = 9700}

ContractSeqs == UNION {[1..n -> ContractKinds] : n \in 0..MaxContracts}

\* the mock chain of the module's __main__ block (lines 116-128)
MockChain ==
    [spot_price |-> 60500,
     contracts |-> <<Contract(60000, "call", Some(D(700))),
                     Contract(61000, "call", Some(D(680))),
                     Contract(59000, "put", Some(D(720))),
                     Contract(58000, "put", Some(D(750)))>>]

\* chains with several contracts in each bucket
WideChains ==
    {[spot_price |-> 10000,
      contracts |-> <<Contract(10300, "call", Some(D(300))),
                      Contract(10300, "call", Some(D(700))),
                      Contract(9700, "put", Some(D(300)))>>],
     [spot_price |-> 10000,
      contracts |-> <<Contract(9700, "put", Some(D(720))),
                      Contract(10300, "call", Some(D(700))),
                      Contract(9700, "put", Some(D(750))),
                      Contract(10300, "call", Some(D(680)))>>]}

Chains ==
    [spot_price : SpotPrices, contracts : ContractSeqs] \cup WideChains \cup {MockChain}

\* every dict over a subset of the keys, each key with a value of its set
Dicts(keys, values(_)) ==
    UNION {{d \in [K -> UNION {values(k) : k \in K}] : \A k \in K : d[k] \in values(k)}
           : K \in SUBSET keys}

ThresholdValues(k) ==
    CASE k = "bullish_skew_diff" -> {D(50)}
      [] k = "bearish_skew_diff" -> {-D(40), -D(50)}
      [] k = "min_confidence" -> {D(50), D(650)}

\* values of volatility_analysis.smirk_interpretation_thresholds
ThresholdDicts ==
    Dicts({"bullish_skew_diff", "bearish_skew_diff", "min_confidence"}, ThresholdValues)

MoneynessValues == {D(50)}

\* values of the volatility_analysis section; moneyness_threshold is the key
\* a caller would use to supply the moneyness threshold
SectionDicts ==
    {EmptyDict}
        \cup {[smirk_interpretation_thresholds |-> t] : t \in ThresholdDicts}
        \cup {[moneyness_threshold |-> m] : m \in MoneynessValues}
        \cup {[smirk_interpretation_thresholds |-> t, moneyness_threshold |-> m] :
                  t \in ThresholdDicts, m \in MoneynessValues}

\* config arguments of analyze_smirk: none, empty, a configuration with the
\* volatility_analysis section, and that section itself
SmirkConfigs ==
    {NoConfig, EmptyDict}
        \cup {[volatility_analysis |-> s] : s \in SectionDicts}
        \cup SectionDicts

SentimentLabels == {"bullish", "bearish", "neutral"}

Confidences ==
    {D(400), D(550), D(600), D(660), D(700), D(750), D(770), D(800), D(950)}

\* the fields of a VolatilitySmirkResult the signal generator reads
SmirkResults == [sentiment_label : SentimentLabels, confidence : Confidences]

SignalSpotPrices == {10000, 60500}

ConfidenceMinValues(k) == {D(600), D(800)}

\* config arguments of generate_signals_from_smirk
StrategyConfigs ==
    {NoConfig, EmptyDict}
        \cup {[strategy |-> d] :
                  d \in Dicts({"smirk_bullish_confidence_min",
                               "smirk_bearish_confidence_min"}, ConfidenceMinValues)}

NoCall == [made |-> FALSE]

-----------------------------------------------------------------------------
(* Direct calls of analyze_smirk *)

\* the caller of run_trading_cycle in agent_manager.py's own entry point
MainThread == 0

NoLogs ==
    /\ fetch_log = NoCall
    /\ analysis_log = << >>
    /\ signal_log = << >>
    /\ execution_log = NoCall

\* trade_execution.py line 32
INITIAL_BALANCE == 100000

\* trade_execution.py lines 172-174: InvestmentTracker.__init__
InvestmentTracker == [balance |-> INITIAL_BALANCE, open_trades |-> << >>]

\* lines 52-83: the queues are empty, no loop is running and the portfolio
\* tracker is new
Constructed ==
    /\ portfolio_tracker = InvestmentTracker
    /\ options_data_queue = << >>
    /\ volatility_analysis_queue = << >>
    /\ signal_queue = << >>
    /\ trade_queue = << >>
    /\ trade_history = << >>
    /\ running = FALSE
    /\ NoLogs

\* a caller outside run_trading_cycle
OneCaller ==
    /\ cycle_pc = (MainThread :> "Idle")
    /\ cycle_signals = (MainThread :> << >>)
    /\ cycle_calls = (MainThread :> << >>)

CycleIdle ==
    /\ manager_config = EmptyDict
    /\ OneCaller
    /\ Constructed

\* the components outside the trading cycle, before their first call
componentVars == <<wrapper_call, deribit, strategy_manager, scheduler>>

\* bot/data/deribit_client.py lines 35-39 and 80-100: no cache file, no call yet
NewDeribitClient == [clock |-> 0, cache |-> {}, calls |-> << >>]

\* scripts/strategy/strategy_manager.py lines 107-124, on an empty trade table
NewStrategyManager ==
    [mode |-> "Adaptive", consecutive_improvement_count |-> 0,
     table |-> [trade_count |-> 0, wins |-> 0, days |-> 0],
     check |-> NoCall, good_checks |-> 0]

\* the channels the agents publish to
Channels == {"market_data", "signals"}

\* bot/infrastructure/scheduler.py lines 36-39: no consumer, no task; the
\* channels are created empty on first use (lines 41-44)
NewScheduler ==
    [consumers |-> [c \in Channels |-> << >>],
     queue |-> [c \in Channels |-> << >>],
     tasks |-> << >>,
     started |-> FALSE, starts |-> 0, stops |-> 0,
     published |-> << >>,
     delivered |-> [c \in Channels |-> << >>]]

ComponentsIdle ==
    /\ wrapper_call = NoCall
    /\ deribit = NewDeribitClient
    /\ strategy_manager = NewStrategyManager
    /\ scheduler = NewScheduler

DirectIdle ==
    /\ pc = "idle"
    /\ smirk_call = NoCall
    /\ signal_call = NoCall
    /\ risk_call = NoCall

Init ==
    /\ DirectIdle
    /\ ComponentsIdle
    /\ CycleIdle

CallAnalyzeSmirk(chains) ==
    /\ pc = "idle"
    /\ \E options_data \in chains, config \in SmirkConfigs :
           smirk_call' = [made |-> TRUE, options_data |-> options_data,
                          config |-> config,
                          frame |-> analyze_smirk(options_data, config)]
    /\ pc' = "analyzed"
    /\ UNCHANGED <<signal_call, risk_call, cycleVars, componentVars>>

Reset ==
    /\ pc # "idle"
    /\ pc' = "idle"
    /\ smirk_call' = NoCall
    /\ signal_call' = NoCall
    /\ risk_call' = NoCall
    /\ UNCHANGED <<cycleVars, componentVars>>

AnalyzeAnyChain == CallAnalyzeSmirk(Chains)

Next == AnalyzeAnyChain \/ Reset

Spec == Init /\ [][Next]_vars

-----------------------------------------------------------------------------
(* The stages called one after the other on the mock chain *)

AnalyzeMockChain == CallAnalyzeSmirk({MockChain})

GenerateSignal ==
    /\ pc = "analyzed"
    /\ \E spot_price \in SignalSpotPrices, smirk_result \in SmirkResults,
          config \in StrategyConfigs :
           signal_call' = [made |-> TRUE, spot_price |-> spot_price,
                           smirk_result |-> smirk_result, config |-> config,
                           signal |-> generate_signals_from_smirk(spot_price,
                                                                  smirk_result, config)]
    /\ pc' = "signalled"
    /\ UNCHANGED <<smirk_call, risk_call, cycleVars, componentVars>>

NextPipeline == AnalyzeMockChain \/ GenerateSignal \/ Reset

SpecPipeline == Init /\ [][NextPipeline]_vars

-----------------------------------------------------------------------------
(* bot/risk/engine.py: Kelly position sizing.  The engine divides by values    *)
(* computed from its arguments, so its floats are modelled as exact rationals: *)
(* a record [n, d] in lowest terms with d > 0.                                 *)

RECURSIVE GCD(_, _)
GCD(a, b) == IF b = 0 THEN a ELSE GCD(b, a % b)

\* n/d in lowest terms, d # 0
R(n, d) ==
    LET g == GCD(Abs(n), Abs(d))
        s == IF d < 0 THEN -1 ELSE 1
    IN  [n |-> (s * n) \div g, d |-> (s * d) \div g]

Zero == R(0, 1)
One == R(1, 1)

RAdd(x, y) == R(x.n * y.d + y.n * x.d, x.d * y.d)
RSub(x, y) == R(x.n * y.d - y.n * x.d, x.d * y.d)
RMul(x, y) == R(x.n * y.n, x.d * y.d)
\* x / y for y # 0
RDiv(x, y) == R(x.n * y.d, x.d * y.n)
RLe(x, y) == x.n * y.d <= y.n * x.d
RMax(x, y) == IF RLe(x, y) THEN y ELSE x
RMin(x, y) == IF RLe(x, y) THEN x ELSE y

Returned(v) == [raised |-> FALSE, value |-> v]
ZeroDivisionError == [raised |-> TRUE]

\* only win_prob 0 is treated as certain
CertainOutcomes_OnlyZero == {Zero}

\* line 19: the win probabilities for which no position is taken
CertainOutcomes == {Zero, One}

\* the fraction is only floored at 0
ClampFraction_NoCeiling(fraction) == RMax(Zero, fraction)

\* line 23: max(0.0, min(fraction, 1.0))
ClampFraction(fraction) == RMax(Zero, RMin(fraction, One))

\* lines 17-23.  Each division raises ZeroDivisionError on a zero divisor.
kelly_position_size(edge, win_prob, capital) ==
    IF win_prob \in CertainOutcomes THEN Returned(Zero)
    ELSE IF RSub(One, win_prob) = Zero THEN ZeroDivisionError
    ELSE LET b == RDiv(edge, RSub(One, win_prob))
             fraction == IF b # Zero
                         THEN RDiv(RSub(RMul(win_prob, RAdd(b, One)), One), b)
                         ELSE Zero
         IN  Returned(RMul(ClampFraction(fraction), capital))

\* lines 8-14: RiskConfig; max_drawdown defaults to 0.2
default_max_drawdown == R(2, 10)

\* lines 36-44
compute_risk_budget(signal_strength, config) ==
    LET edge == RMax(signal_strength, Zero)
        win_prob == RAdd(R(1, 2), RDiv(edge, R(2, 1)))
        allocation == kelly_position_size(edge, win_prob, config.capital)
    IN  IF allocation.raised THEN allocation
        ELSE Returned([allocation |-> allocation.value,
                       max_loss |-> RMul(allocation.value, config.max_drawdown)])

\* arguments of the direct calls
Edges == {R(-1, 10), Zero, R(1, 10), R(1, 2), R(2, 1)}
WinProbs == {R(-1, 2), Zero, R(1, 4), R(1, 2), R(11, 20), R(3, 4), One, R(3, 2)}
Capitals == {Zero, R(1000, 1), R(100000, 1)}
SignalStrengths ==
    {R(-1, 2), Zero, R(1, 10), R(1, 5), R(1, 4), R(1, 2), R(3, 4), One, R(2, 1)}
RiskConfigs == [capital : Capitals, max_drawdown : {default_max_drawdown, R(1, 2)}]

CallKelly ==
    /\ pc = "idle"
    /\ \E edge \in Edges, win_prob \in WinProbs, capital \in Capitals :
           risk_call' = [made |-> TRUE, fn |-> "kelly_position_size",
                         edge |-> edge, win_prob |-> win_prob, capital |-> capital,
                         outcome |-> kelly_position_size(edge, win_prob, capital)]
    /\ pc' = "sized"
    /\ UNCHANGED <<smirk_call, signal_call, cycleVars, componentVars>>

CallComputeRiskBudget ==
    /\ pc = "idle"
    /\ \E signal_strength \in SignalStrengths, config \in RiskConfigs :
           risk_call' = [made |-> TRUE, fn |-> "compute_risk_budget",
                         signal_strength |-> signal_strength, config |-> config,
                         outcome |-> compute_risk_budget(signal_strength, config)]
    /\ pc' = "sized"
    /\ UNCHANGED <<smirk_call, signal_call, cycleVars, componentVars>>

NextRisk == CallKelly \/ CallComputeRiskBudget \/ Reset

SpecRisk == Init /\ [][NextRisk]_vars

-----------------------------------------------------------------------------
(* AgentManager.run_trading_cycle for the symbol BTC-USD.  cycle_pc maps each   *)
(* caller of run_trading_cycle to its position: MainThread calls it directly,  *)
(* the callers 1, 2, ... are the trading-loop threads.                         *)

MaxChains == 2
MaxHistory == 2

IsLoopThread(t) == t # MainThread

\* where a caller stands when it is about to call run_trading_cycle, where it
\* stands when the call has returned, and where an exception of the call lands
EntryPoint(t) == IF IsLoopThread(t) THEN "Starting" ELSE "Idle"
ReturnPoint(t) == IF IsLoopThread(t) THEN "Sleeping" ELSE "Idle"
ExceptionPoint(t) == IF IsLoopThread(t) THEN "RetrySleeping" ELSE "Raised"

\* the chains a request to the options API can be parsed into
CycleChains ==
    WideChains \cup {MockChain}
        \cup {[spot_price |-> 10000, contracts |-> cs] :
                  cs \in {<< >>,
                          <<Contract(10300, "call", Some(D(700)))>>,
                          <<Contract(9700, "put", Some(D(700)))>>}}

\* btc_options_fetch.py lines 37-38: the request or the parsing of one expiry
\* raised, which covers a timeout
RequestFailed == [failed |-> TRUE]

\* the expiries AgentManager can be configured to monitor
ExpiryNames == <<"1D", "7D", "30D", "90D">>
ExpiryLists == {[i \in 1..n |-> ExpiryNames[i]] : n \in 0..MaxChains}

\* btc_options_fetch.py lines 24 and 54-56: the mock strikes are the base spot
\* price moved by -10, -5, 0, 5 and 10 percent, rounded to a multiple of 500
mock_strikes == <<56500, 59500, 62500, 65500, 69000>>

\* btc_options_fetch.py lines 45-115: one mock chain; the spot price and the
\* implied volatilities are random draws
MockFetchedChain(spot_price, call_iv, put_iv) ==
    [spot_price |-> spot_price,
     contracts |-> [i \in 1..(2 * Len(mock_strikes)) |->
                       IF i % 2 = 1
                       THEN Contract(mock_strikes[(i + 1) \div 2], "call", Some(call_iv))
                       ELSE Contract(mock_strikes[i \div 2], "put", Some(put_iv))]]

MockFetchedChains ==
    {MockFetchedChain(s, c, p) : s \in {62401, 62600}, c \in {D(550)}, p \in {D(600), D(900)}}

\* btc_options_fetch.py lines 19-117: one mock chain per expiry
MockFetchResults(expiries) == [1..Len(expiries) -> MockFetchedChains]

\* the chains fetched, with no replacement for an empty list
fetch_btc_options_data_NoFallback(expiries, responses, mock) ==
    SelectSeq(responses, LAMBDA r : r # RequestFailed)

\* btc_options_fetch.py lines 160-192: responses[i] is the chain parsed for the
\* i-th expiry or RequestFailed; mock is what _mock_fetch_btc_options_data
\* returns if it is called
fetch_btc_options_data(expiries, responses, mock) ==
    LET chains == SelectSeq(responses, LAMBDA r : r # RequestFailed)
    IN  IF chains = << >> THEN mock ELSE chains

\* the outcomes of the requests: none is sent without an API key
Responses(api_key_set, expiries) ==
    IF api_key_set THEN [1..Len(expiries) -> CycleChains \cup {RequestFailed}]
    ELSE {<< >>}

\* what _mock_fetch_btc_options_data draws; it is called only when a request
\* was sent for every expiry and none delivered a chain
MockDraws(expiries, responses) ==
    IF Len(responses) = Len(expiries) /\ \A i \in DOMAIN responses : responses[i] = RequestFailed
    THEN MockFetchResults(expiries)
    ELSE {<< >>}

\* agent_manager.py line 133
monitored_expiries ==
    Get(Get(manager_config, "volatility_analysis", EmptyDict),
        "monitored_expiries", <<"1D", "7D">>)

FullThresholdDicts ==
    {t \in ThresholdDicts :
        DOMAIN t = {"bullish_skew_diff", "bearish_skew_diff", "min_confidence"}}

\* configurations an AgentManager is constructed with
ManagerConfigs ==
    {EmptyDict}
        \cup {[volatility_analysis |-> s] : s \in SectionDicts}
        \cup {[volatility_analysis |-> [monitored_expiries |-> e]] : e \in ExpiryLists}
        \cup {[volatility_analysis |-> [smirk_interpretation_thresholds |-> t],
               strategy |-> [smirk_bearish_confidence_min |-> D(600)],
               trading |-> [max_concurrent_trades |-> n]] :
                  t \in FullThresholdDicts, n \in 1..2}

InitCycle ==
    /\ DirectIdle
    /\ ComponentsIdle
    /\ manager_config \in ManagerConfigs
    /\ OneCaller
    /\ Constructed

At(t, position) == t \in DOMAIN cycle_pc /\ cycle_pc[t] = position

\* lines 117-146 and 333-335: the chains fetched are queued; a missing API key
\* and an empty list leave the queue as it is
fetch_data_for_symbol(t) ==
    /\ At(t, EntryPoint(t))
    /\ Len(trade_history) < MaxHistory
    /\ \E api_key_set \in BOOLEAN :
       \E responses \in Responses(api_key_set, monitored_expiries) :
       \E mock \in MockDraws(monitored_expiries, responses) :
           LET options_chain_list ==
                   IF api_key_set
                   THEN fetch_btc_options_data(monitored_expiries, responses, mock)
                   ELSE << >>
           IN  /\ options_data_queue' = options_data_queue \o options_chain_list
               /\ fetch_log' = [made |-> TRUE, api_key_set |-> api_key_set,
                                expiries |-> monitored_expiries,
                                responses |-> responses,
                                queued |-> options_chain_list]
    /\ cycle_pc' = [cycle_pc EXCEPT ![t] = "AnalyzingSkew"]
    /\ cycle_signals' = [cycle_signals EXCEPT ![t] = << >>]
    /\ cycle_calls' = [cycle_calls EXCEPT ![t] = <<"fetch_data_for_symbol">>]
    /\ analysis_log' = << >>
    /\ signal_log' = << >>
    /\ execution_log' = NoCall
    /\ UNCHANGED <<manager_config, portfolio_tracker, volatility_analysis_queue, signal_queue,
                   trade_queue, trade_history, running, directVars, componentVars>>

\* lines 190-198: one queue item; an exception of analyze_smirk is caught
AnalyzeItem(options_data) ==
    LET smirk_config == Get(manager_config, "volatility_analysis", EmptyDict)
    IN  [options_data |-> options_data,
         config |-> smirk_config,
         frame |-> analyze_smirk(options_data, smirk_config)]

\* lines 182-201: the queue is drained item by item inside a try block of its
\* own; the results of the calls that returned are kept, in queue order
AnalyzeBatch(queue) ==
    LET calls == [i \in 1..Len(queue) |-> AnalyzeItem(queue[i])]
        returned == SelectSeq(calls, LAMBDA c : c.frame.result # None)
    IN  [calls |-> calls,
         results |-> [i \in 1..Len(returned) |-> Val(returned[i].frame.result)],
         left |-> << >>,
         raised |-> FALSE]

\* lines 175-201 and 341
perform_volatility_analysis(t) ==
    /\ At(t, "AnalyzingSkew")
    /\ LET batch == AnalyzeBatch(options_data_queue)
       IN  /\ analysis_log' = batch.calls
           /\ volatility_analysis_queue' = volatility_analysis_queue \o batch.results
           /\ options_data_queue' = batch.left
           /\ cycle_pc' = [cycle_pc EXCEPT ![t] = IF batch.raised THEN ExceptionPoint(t)
                                                  ELSE "GeneratingSignal"]
    /\ cycle_calls' = [cycle_calls EXCEPT ![t] = Append(@, "perform_volatility_analysis")]
    /\ UNCHANGED <<manager_config, portfolio_tracker, signal_queue, trade_queue, trade_history,
                   cycle_signals, fetch_log, signal_log, execution_log, running,
                   directVars, componentVars>>

\* lines 215-228: one smirk result.  Reading the spot price of a result without
\* details raises, and the exception is caught; a missing or zero spot price
\* skips the item
SignalItem(smirk_result) ==
    IF smirk_result.details = None
    THEN [smirk_result |-> smirk_result, raised |-> TRUE, signal |-> None]
    ELSE LET spot_price == smirk_result.details.spot_price_at_analysis
         IN  [smirk_result |-> smirk_result,
              raised |-> FALSE,
              signal |-> IF spot_price = 0 THEN None
                         ELSE generate_signals_from_smirk(spot_price, smirk_result,
                                                          manager_config)]

\* the signal of one smirk result, or None
SignalOfResult(smirk_result) == SignalItem(smirk_result).signal

Emitted(items) ==
    LET emitted == SelectSeq(items, LAMBDA o : o.signal # None)
    IN  [i \in 1..Len(emitted) |-> Val(emitted[i].signal)]

\* the first item that raises ends the stage
SignalBatch_AbortOnError(queue) ==
    LET items == [i \in 1..Len(queue) |-> SignalItem(queue[i])]
        failing == {i \in 1..Len(queue) : items[i].raised}
        last == IF failing = {} THEN Len(queue)
                ELSE CHOOSE i \in failing : \A j \in failing : i <= j
    IN  [items |-> SubSeq(items, 1, last),
         signals |-> Emitted(SubSeq(items, 1, last)),
         left |-> SubSeq(queue, last + 1, Len(queue)),
         raised |-> failing # {}]

\* lines 210-231: the queue is drained item by item inside a try block of its
\* own; the signals generated are kept, in queue order
SignalBatch(queue) ==
    LET items == [i \in 1..Len(queue) |-> SignalItem(queue[i])]
    IN  [items |-> items,
         signals |-> Emitted(items),
         left |-> << >>,
         raised |-> FALSE]

\* lines 203-231 and 345
generate_trading_signals(t) ==
    /\ At(t, "GeneratingSignal")
    /\ LET batch == SignalBatch(volatility_analysis_queue)
       IN  /\ signal_log' = batch.items
           /\ cycle_signals' = [cycle_signals EXCEPT ![t] = batch.signals]
           /\ signal_queue' = signal_queue \o batch.signals
           /\ volatility_analysis_queue' = batch.left
           /\ cycle_pc' = [cycle_pc EXCEPT ![t] = IF batch.raised THEN ExceptionPoint(t)
                                                  ELSE "ExecutingTrades"]
    /\ cycle_calls' = [cycle_calls EXCEPT ![t] = Append(@, "generate_trading_signals")]
    /\ UNCHANGED <<manager_config, portfolio_tracker, options_data_queue, trade_queue,
                   trade_history, fetch_log, analysis_log, execution_log, running,
                   directVars, componentVars>>

\* line 260: signals.sort(key=confidence, reverse=True), a stable sort
RECURSIVE SortByConfidence(_)
SortByConfidence(signals) ==
    IF signals = << >> THEN << >>
    ELSE LET rest == SortByConfidence(Tail(signals))
             h == Head(signals)
             before == SelectSeq(rest, LAMBDA x : x.confidence > h.confidence)
             after == SelectSeq(rest, LAMBDA x : x.confidence <= h.confidence)
         IN  before \o <<h>> \o after

\* every signal on the queue is taken
TakeCount_All(max_trades, available) == available

\* lines 252-253: signals are taken while the queue is not empty and fewer than
\* max_trades are held
TakeCount(max_trades, available) ==
    IF max_trades < 0 THEN 0 ELSE Min(max_trades, available)

\* the trade is marked EXECUTED whatever record_trade returned
SettleTrade_AlwaysExecuted(trade, trade_id) ==
    [trade EXCEPT !.status = "EXECUTED",
                  !.execution_id = IF trade_id # None THEN trade_id ELSE Some(0)]

\* lines 281-289: `if trade_id:` marks the trade EXECUTED and stores the id;
\* otherwise the trade object stays as it was built
SettleTrade(trade, trade_id) ==
    IF trade_id # None
    THEN [trade EXCEPT !.status = "EXECUTED", !.execution_id = trade_id]
    ELSE trade

\* lines 264-313: the signals are handled one by one; ok[i] tells whether
\* record_trade wrote the row of the i-th one and returned its id.  Each BUY or
\* SELL signal is one call of record_trade, kept in acc.attempts
RECURSIVE RecordTrades(_, _, _, _)
RecordTrades(signals, ok, i, acc) ==
    IF i > Len(signals) THEN acc
    ELSE LET signal == signals[i]
             trade == [order_type |-> IF signal.signal = 1 THEN "BUY" ELSE "SELL",
                       price |-> signal.price,
                       quantity |-> 1,
                       status |-> "PENDING",
                       execution_id |-> None]
             trade_id == IF ok[i] THEN Some(Len(acc.history) + 1) ELSE None
             settled == SettleTrade(trade, trade_id)
             attempt == [signal |-> signal, trade_id |-> trade_id, trade |-> settled]
         IN  IF signal.signal \notin {1, -1} THEN RecordTrades(signals, ok, i + 1, acc)
             ELSE RecordTrades(signals, ok, i + 1,
                      [history |-> IF ok[i] THEN Append(acc.history, trade)
                                   ELSE acc.history,
                       executed |-> IF trade_id # None THEN Append(acc.executed, settled)
                                    ELSE acc.executed,
                       attempts |-> Append(acc.attempts, attempt)])

\* lines 233-322: execute_trades(max_trades)
ExecuteTrades(max_trades) ==
    LET n == TakeCount(max_trades, Len(signal_queue))
        signals == SortByConfidence(SubSeq(signal_queue, 1, n))
    IN  /\ signal_queue' = SubSeq(signal_queue, n + 1, Len(signal_queue))
        /\ \E ok \in [1..n -> BOOLEAN] :
               LET done == RecordTrades(signals, ok, 1,
                                        [history |-> trade_history,
                                         executed |-> << >>,
                                         attempts |-> << >>])
               IN  /\ trade_history' = done.history
                   /\ trade_queue' = trade_queue \o done.executed
                   /\ execution_log' = [made |-> TRUE,
                                        max_trades |-> max_trades,
                                        signals |-> signals,
                                        attempts |-> done.attempts,
                                        returned |-> done.executed]

\* lines 359-371: trades are executed only when this cycle generated signals;
\* the portfolio is then displayed
complete_trading_cycle(t) ==
    /\ At(t, "ExecutingTrades")
    /\ IF cycle_signals[t] = << >>
       THEN /\ UNCHANGED <<signal_queue, trade_queue, trade_history, execution_log>>
            /\ cycle_calls' = [cycle_calls EXCEPT ![t] = Append(@, "display_portfolio")]
       ELSE /\ ExecuteTrades(Get(Get(manager_config, "trading", EmptyDict),
                                 "max_concurrent_trades", 1))
            /\ cycle_calls' = [cycle_calls EXCEPT ![t] =
                                   @ \o <<"execute_trades", "display_portfolio">>]
    /\ cycle_pc' = [cycle_pc EXCEPT ![t] = ReturnPoint(t)]
    /\ UNCHANGED <<manager_config, portfolio_tracker, options_data_queue, volatility_analysis_queue,
                   cycle_signals, fetch_log, analysis_log, signal_log, running,
                   directVars, componentVars>>

NextCycle ==
    \/ fetch_data_for_symbol(MainThread)
    \/ perform_volatility_analysis(MainThread)
    \/ generate_trading_signals(MainThread)
    \/ complete_trading_cycle(MainThread)

SpecCycle == InitCycle /\ [][NextCycle]_vars

-----------------------------------------------------------------------------
(* The stages after the analysis.  analyze_smirk hands no result to its caller, *)
(* so the smirk results on volatility_analysis_queue are drawn from the values  *)
(* a VolatilitySmirkResult can hold, as a caller of the stage methods can put   *)
(* them there.                                                                  *)

MaxResults == 2
MaxQueue == 3

\* agent_interfaces.py lines 155-162: details is optional
SmirkResultOnQueue(label, confidence, details) ==
    [skewness_metric |-> IF label = "bullish" THEN Some(D(150))
                         ELSE IF label = "bearish" THEN Some(-D(150))
                         ELSE None,
     sentiment_label |-> label,
     confidence |-> confidence,
     details |-> details]

DetailsAt(spot_price) ==
    [spot_price_at_analysis |-> spot_price, num_otm_calls |-> 2, num_otm_puts |-> 2]

QueueResults ==
    {SmirkResultOnQueue("bullish", D(800), DetailsAt(60500)),
     SmirkResultOnQueue("bearish", D(750), DetailsAt(60500)),
     SmirkResultOnQueue("neutral", D(0), DetailsAt(60500)),
     SmirkResultOnQueue("bullish", D(900), DetailsAt(0)),
     SmirkResultOnQueue("bearish", D(900), None)}

ResultBatches == UNION {[1..n -> QueueResults] : n \in 0..MaxResults}

StageConfigs ==
    {EmptyDict}
        \cup {[trading |-> [max_concurrent_trades |-> n]] : n \in {0, 1, 2}}

InitStages ==
    /\ DirectIdle
    /\ ComponentsIdle
    /\ manager_config \in StageConfigs
    /\ OneCaller
    /\ Constructed

\* lines 333-341 with an analysis that returns: the results of the analysis
\* stage are on volatility_analysis_queue when the signal stage is entered
deliver_volatility_results(t) ==
    /\ At(t, EntryPoint(t))
    /\ Len(trade_history) < MaxHistory
    /\ \E batch \in ResultBatches :
           /\ Len(signal_queue) + Len(batch) <= MaxQueue
           /\ volatility_analysis_queue' = volatility_analysis_queue \o batch
    /\ cycle_pc' = [cycle_pc EXCEPT ![t] = "GeneratingSignal"]
    /\ cycle_signals' = [cycle_signals EXCEPT ![t] = << >>]
    /\ cycle_calls' = [cycle_calls EXCEPT ![t] =
                           <<"fetch_data_for_symbol", "perform_volatility_analysis">>]
    /\ fetch_log' = NoCall
    /\ analysis_log' = << >>
    /\ signal_log' = << >>
    /\ execution_log' = NoCall
    /\ UNCHANGED <<manager_config, portfolio_tracker, options_data_queue, signal_queue, trade_queue,
                   trade_history, running, directVars, componentVars>>

NextStages ==
    \/ deliver_volatility_results(MainThread)
    \/ generate_trading_signals(MainThread)
    \/ complete_trading_cycle(MainThread)

SpecStages == InitStages /\ [][NextStages]_vars

-----------------------------------------------------------------------------
(* AgentManager.start_automated_trading and stop_automated_trading: the        *)
(* trading-loop threads.  Thread t stands at "CheckRunning" before the test of  *)
(* `while self.running`, at "Starting" when the test has passed and             *)
(* run_trading_cycle is about to be called, at "Sleeping" in                    *)
(* time.sleep(interval), at "RetrySleeping" in the time.sleep(10) of the        *)
(* exception handler, and at "Terminated" when the loop has ended.              *)

MaxThreads == 2

LoopThreads == 1..MaxThreads

\* configurations of the manager whose loop is started
LoopConfigs == {[volatility_analysis |-> [monitored_expiries |-> <<"1D">>]]}

InitLoop ==
    /\ DirectIdle
    /\ ComponentsIdle
    /\ manager_config \in LoopConfigs
    /\ cycle_pc = << >>
    /\ cycle_signals = << >>
    /\ cycle_calls = << >>
    /\ Constructed

\* lines 373-399: the flag is set and a new daemon thread is started, whether
\* or not an earlier thread is still alive
start_automated_trading ==
    /\ Len(cycle_pc) < MaxThreads
    /\ running' = TRUE
    /\ cycle_pc' = Append(cycle_pc, "CheckRunning")
    /\ cycle_signals' = Append(cycle_signals, << >>)
    /\ cycle_calls' = Append(cycle_calls, << >>)
    /\ UNCHANGED <<manager_config, portfolio_tracker, options_data_queue, volatility_analysis_queue,
                   signal_queue, trade_queue, trade_history, fetch_log,
                   analysis_log, signal_log, execution_log, directVars, componentVars>>

\* lines 401-415: the flag is cleared; join(timeout=5) returns after five
\* seconds at the latest and changes nothing
stop_automated_trading ==
    /\ running' = FALSE
    /\ UNCHANGED <<manager_config, portfolio_tracker, cycle_pc, cycle_signals, cycle_calls,
                   options_data_queue, volatility_analysis_queue, signal_queue,
                   trade_queue, trade_history, fetch_log, analysis_log,
                   signal_log, execution_log, directVars, componentVars>>

\* the loop goes on whatever the flag
LoopContinues_Always(flag) == TRUE

\* line 386: while self.running
LoopContinues(flag) == flag

\* the thread ends after its sleep
AfterSleep_Exit == "Terminated"

\* lines 386-392: after either sleep the loop tests the flag again
AfterSleep == "CheckRunning"

loopFrame ==
    <<manager_config, portfolio_tracker, cycle_signals, cycle_calls, options_data_queue,
      volatility_analysis_queue, signal_queue, trade_queue, trade_history,
      running, fetch_log, analysis_log, signal_log, execution_log, directVars, componentVars>>

\* line 386: the test of the loop
trading_loop_test(t) ==
    /\ At(t, "CheckRunning")
    /\ cycle_pc' = [cycle_pc EXCEPT ![t] = IF LoopContinues(running) THEN "Starting"
                                           ELSE "Terminated"]
    /\ UNCHANGED loopFrame

\* lines 389 and 392: time.sleep returns
trading_loop_wake(t) ==
    /\ At(t, "Sleeping") \/ At(t, "RetrySleeping")
    /\ cycle_pc' = [cycle_pc EXCEPT ![t] = AfterSleep]
    /\ UNCHANGED loopFrame

\* lines 385-392: a step of thread t
trading_loop(t) ==
    \/ trading_loop_test(t)
    \/ fetch_data_for_symbol(t)
    \/ perform_volatility_analysis(t)
    \/ generate_trading_signals(t)
    \/ complete_trading_cycle(t)
    \/ trading_loop_wake(t)

NextLoop ==
    \/ start_automated_trading
    \/ stop_automated_trading
    \/ \E t \in LoopThreads : trading_loop_test(t)
    \/ \E t \in LoopThreads : fetch_data_for_symbol(t)
    \/ \E t \in LoopThreads : perform_volatility_analysis(t)
    \/ \E t \in LoopThreads : generate_trading_signals(t)
    \/ \E t \in LoopThreads : complete_trading_cycle(t)
    \/ \E t \in LoopThreads : trading_loop_wake(t)

SpecLoop == InitLoop /\ [][NextLoop]_vars

\* time.sleep returns, and a thread that stands at the loop test performs it
SpecLoopFair ==
    SpecLoop /\ \A t \in LoopThreads :
                    WF_vars(trading_loop_test(t)) /\ WF_vars(trading_loop_wake(t))

\* a manager that monitors no expiry: every fetch leaves the queue empty
QuietConfigs == {[volatility_analysis |-> [monitored_expiries |-> << >>]]}

InitQuietLoop ==
    /\ DirectIdle
    /\ ComponentsIdle
    /\ manager_config \in QuietConfigs
    /\ cycle_pc = << >>
    /\ cycle_signals = << >>
    /\ cycle_calls = << >>
    /\ Constructed

SpecQuietLoop == InitQuietLoop /\ [][NextLoop]_vars

\* a started thread is scheduled again and again, and time.sleep returns
SpecQuietLoopFair == SpecQuietLoop /\ \A t \in LoopThreads : WF_vars(trading_loop(t))

-----------------------------------------------------------------------------
(* utils/retry.py: the decorators retry and retry_with_result.  wrapper_call   *)
(* is the frame of one call of the wrapper: the decorator's arguments, the     *)
(* locals tries, current_delay and last (last_exception or last_result), the   *)
(* outcomes of the calls of the wrapped function, the arguments of the calls   *)
(* of time.sleep, and the outcome of the wrapper once it has ended.  Delays    *)
(* are in hundredths of a second.                                              *)

MaxTries == 3

\* what a call of the wrapped function does: it returns a value or raises
Raises(e) == [raised |-> TRUE, exception |-> e]

\* lines 20-26 and 94-97
RetryError(last_exception) ==
    [raised |-> TRUE, exception |-> "RetryError", last_exception |-> last_exception]

\* the values None, [] and ["data"] of test_retry.py
EmptyList == <<"list">>
DataList == <<"list", "data">>
FuncResults == {None, EmptyList, DataList}

FuncExceptions == {"ValueError", "KeyError"}

FuncOutcomes == {Returned(v) : v \in FuncResults} \cup {Raises(e) : e \in FuncExceptions}

\* the `exceptions` argument: the default Exception, or ValueError as in the tests
ExceptionLists == {{"Exception"}, {"ValueError"}}

\* line 68: except tuple(exceptions)
Caught(exceptions, e) == "Exception" \in exceptions \/ e \in exceptions

\* the `validator` argument: the default of line 107 and the one of the tests
Validators == {"is not None", "not empty"}

\* lines 107 and 141: the truth value of validator(result)
Validates(validator, result) ==
    IF validator = "is not None" THEN result # None
    ELSE result # None /\ Len(result) > 1

Delays == {0, 100}
Backoffs == {1, 2}

\* lines 81 and 153: random.uniform(0, 0.1), in percent
JitterDraws(jitter) == IF jitter THEN {0, 5, 10} ELSE {0}

\* lines 79-83 and 152-155
SleepTime(current_delay, draw) == (current_delay * (100 + draw)) \div 100

\* the wrapper gives up only when tries exceeds max_tries
GiveUp_OneMore(tries, max_tries) == tries > max_tries

\* lines 72 and 145: if tries >= max_tries
GiveUp(tries, max_tries) == tries >= max_tries

\* the wrapper raises RetryError when the results are used up
Exhausted_RetryError(last_result) == RetryError(last_result)

\* line 166: return last_result
Exhausted(last_result) == Returned(last_result)

StillRunning == [ended |-> FALSE]

\* lines 61-63 and 133-135
WrapperFrame(decorator, max_tries, delay, backoff, jitter, filter) ==
    [made |-> TRUE, decorator |-> decorator, max_tries |-> max_tries,
     backoff |-> backoff, jitter |-> jitter, filter |-> filter,
     tries |-> 0, current_delay |-> delay, last |-> None,
     calls |-> << >>, sleeps |-> << >>, position |-> "Loop", outcome |-> StillRunning]

Ended(frame, outcome) == [frame EXCEPT !.position = "Ended", !.outcome = outcome]

\* lines 78-90 and 151-162: time.sleep is called with the delay and its jitter
Sleep(frame, draw) ==
    [frame EXCEPT !.position = "Sleeping",
                  !.sleeps = Append(@, SleepTime(frame.current_delay, draw))]

\* lines 65-97: one pass of the loop of retry's wrapper, in which the wrapped
\* function does `result`
RetryIteration(frame, result, draw) ==
    IF ~(frame.tries < frame.max_tries) THEN Ended(frame, RetryError(frame.last))
    ELSE LET called == [frame EXCEPT !.calls = Append(@, result)]
         IN  IF ~result.raised THEN Ended(called, Returned(result.value))
             ELSE IF ~Caught(frame.filter, result.exception)
                  THEN Ended(called, Raises(result.exception))
             ELSE LET failed == [called EXCEPT !.tries = @ + 1,
                                               !.last = Some(result.exception)]
                  IN  IF GiveUp(failed.tries, failed.max_tries)
                      THEN Ended(failed, RetryError(failed.last))
                      ELSE Sleep(failed, draw)

\* lines 137-166: one pass of the loop of retry_with_result's wrapper
ResultIteration(frame, result, draw) ==
    IF ~(frame.tries < frame.max_tries) THEN Ended(frame, Exhausted(frame.last))
    ELSE LET called == [frame EXCEPT !.calls = Append(@, result)]
         IN  IF result.raised THEN Ended(called, Raises(result.exception))
             ELSE LET got == [called EXCEPT !.last = result.value]
                  IN  IF Validates(frame.filter, result.value)
                      THEN Ended(got, Returned(result.value))
                      ELSE LET invalid == [got EXCEPT !.tries = @ + 1]
                           IN  IF GiveUp(invalid.tries, invalid.max_tries)
                               THEN Ended(invalid, Exhausted(invalid.last))
                               ELSE Sleep(invalid, draw)

retryFrame == <<directVars, cycleVars, deribit, strategy_manager, scheduler>>

\* retry(...)(func)(): the wrapper is entered
call_retry ==
    /\ wrapper_call = NoCall
    /\ \E max_tries \in 0..MaxTries, delay \in Delays, backoff \in Backoffs,
          jitter \in BOOLEAN, exceptions \in ExceptionLists :
           wrapper_call' = WrapperFrame("retry", max_tries, delay, backoff, jitter,
                                        exceptions)
    /\ UNCHANGED retryFrame

\* retry_with_result(...)(func)(): the wrapper is entered
call_retry_with_result ==
    /\ wrapper_call = NoCall
    /\ \E max_tries \in 0..MaxTries, delay \in Delays, backoff \in Backoffs,
          jitter \in BOOLEAN, validator \in Validators :
           wrapper_call' = WrapperFrame("retry_with_result", max_tries, delay,
                                        backoff, jitter, validator)
    /\ UNCHANGED retryFrame

InWrapper(decorator, position) ==
    /\ wrapper_call.made
    /\ wrapper_call.decorator = decorator
    /\ wrapper_call.position = position

retry_iteration ==
    /\ InWrapper("retry", "Loop")
    /\ \E result \in FuncOutcomes, draw \in JitterDraws(wrapper_call.jitter) :
           wrapper_call' = RetryIteration(wrapper_call, result, draw)
    /\ UNCHANGED retryFrame

retry_with_result_iteration ==
    /\ InWrapper("retry_with_result", "Loop")
    /\ \E result \in FuncOutcomes, draw \in JitterDraws(wrapper_call.jitter) :
           wrapper_call' = ResultIteration(wrapper_call, result, draw)
    /\ UNCHANGED retryFrame

\* lines 90-91 and 162-163: time.sleep returns and the delay is multiplied
wrapper_wake ==
    /\ wrapper_call.made
    /\ wrapper_call.position = "Sleeping"
    /\ wrapper_call' = [wrapper_call EXCEPT !.position = "Loop",
                                            !.current_delay = @ * wrapper_call.backoff]
    /\ UNCHANGED retryFrame

\* the caller has the outcome; the next call starts from a new frame
wrapper_ended ==
    /\ wrapper_call.made
    /\ wrapper_call.position = "Ended"
    /\ wrapper_call' = NoCall
    /\ UNCHANGED retryFrame

NextRetry ==
    \/ call_retry
    \/ call_retry_with_result
    \/ retry_iteration
    \/ retry_with_result_iteration
    \/ wrapper_wake
    \/ wrapper_ended

SpecRetry == Init /\ [][NextRetry]_vars

-----------------------------------------------------------------------------
(* bot/data/deribit_client.py: DeribitMarketDataClient.fetch_options_chain and *)
(* the OnDiskCache behind it.  deribit.clock is the time in ticks,             *)
(* deribit.cache the files of the cache directory (one per key), and           *)
(* deribit.calls the calls of fetch_options_chain made so far, each with its   *)
(* arguments, the number of HTTP requests it sent and its outcome.  The files  *)
(* of the cache directory can be read and written.  Every call happens at a    *)
(* later instant than the call before it.                                      *)

MaxFetches == 2

\* line 86: cache_ttl, in ticks
cache_ttl == 2

\* the time between two calls: within the TTL, or longer
Steps == {1, 3}

\* line 189: timedelta(days=1), in ticks
Day == 10

\* test_deribit_client.py line 48: the instant 2024-05-24T08:00:00Z, in ticks
ExpiryInstant == 500

\* lines 183-202: one expiry string, at the instant `now` of line 180; None
\* when no format matches
NormalizeExpiry(expiry, now) ==
    CASE expiry = "1D" -> Some(now + Day)
      [] expiry = "1W" -> Some(now + 7 * Day)
      [] expiry = "2024-05-24T08:00:00Z" -> Some(ExpiryInstant)
      [] OTHER -> None

\* line 210: normalized.sort()
RECURSIVE SortedInstants(_)
SortedInstants(instants) ==
    IF instants = << >> THEN << >>
    ELSE LET rest == SortedInstants(Tail(instants))
             h == Head(instants)
         IN  SelectSeq(rest, LAMBDA x : x < h) \o <<h>>
                 \o SelectSeq(rest, LAMBDA x : x >= h)

\* lines 178-211: _normalize_expiries
normalize_expiries(expiries, now) ==
    IF \E i \in 1..Len(expiries) : NormalizeExpiry(expiries[i], now) = None
    THEN Raises("ValueError")
    ELSE Returned(SortedInstants([i \in 1..Len(expiries) |->
                                      NormalizeExpiry(expiries[i], now)[1]]))

\* datetime.isoformat and its inverse, the parsing of the ISO string
IsoFormat(instant) == <<"iso", instant>>
ParseIso(text) == text[2]

\* lines 116-123
CacheKey(currency, kind, normalized_requests) ==
    [currency |-> currency, kind |-> kind,
     expiries |-> [i \in 1..Len(normalized_requests) |->
                       IsoFormat(normalized_requests[i])]]

\* lines 45-60: OnDiskCache.load
CacheLoad(cache, key, now) ==
    LET files == {f \in cache : f.key = key}
    IN  IF files = {} THEN None
        ELSE LET raw == CHOOSE f \in files : TRUE
             IN  IF now - raw.stored_at > cache_ttl THEN None
                 ELSE Some([payload |-> raw.payload, stored_at |-> raw.stored_at])

\* lines 62-72: OnDiskCache.store replaces the file of the key
CacheStore(cache, key, payload, now) ==
    {f \in cache : f.key # key}
        \cup {[key |-> key, stored_at |-> now, payload |-> payload]}

\* lines 308-322 and 324-326: a chain as written to the cache, and read back
ToSerializable(chain) == [chain EXCEPT !.expiry_date = IsoFormat(@)]
ParseOptionsChain(payload) == [payload EXCEPT !.expiry_date = ParseIso(@)]

\* what Deribit answers during one call: an error, no instrument, or the two
\* instruments of the tests at some underlying price
Markets ==
    {[failed |-> TRUE, instruments |-> 0, underlying_price |-> 0],
     [failed |-> FALSE, instruments |-> 0, underlying_price |-> 0]}
        \cup {[failed |-> FALSE, instruments |-> 2, underlying_price |-> p] :
                  p \in {61234, 61300}}

\* lines 134-168: one chain per requested expiry, built from the instruments of
\* the closest listed expiry; none when Deribit lists no instrument
BuiltChains(currency, normalized_requests, market) ==
    IF market.instruments = 0 THEN << >>
    ELSE [i \in 1..Len(normalized_requests) |->
              [underlying_symbol |-> currency,
               spot_price |-> market.underlying_price,
               expiry_date |-> normalized_requests[i],
               contracts |-> <<[strike_price |-> 60000, contract_type |-> "call"],
                               [strike_price |-> 60000, contract_type |-> "put"]>>]]

\* one get_instruments request, and one book summary per instrument of each
\* requested expiry
RequestCount(normalized_requests, market) ==
    IF market.failed THEN 1
    ELSE 1 + market.instruments * Len(normalized_requests)

DeribitAPIError == Raises("DeribitAPIError")

\* lines 105-173: the cache after the call, and the record of the call
fetch_options_chain(cache, expiries, currency, kind, refresh, now, market) ==
    LET call == [at |-> now, expiries |-> expiries, currency |-> currency,
                 kind |-> kind, refresh |-> refresh]
        normalized == normalize_expiries(expiries, now)
        Record(requests, served, outcome) ==
            call @@ [http_requests |-> requests, from_cache |-> served,
                     outcome |-> outcome]
    IN  IF normalized.raised
        THEN [cache |-> cache, call |-> Record(0, None, normalized)]
        ELSE LET normalized_requests == normalized.value
                 cache_key == CacheKey(currency, kind, normalized_requests)
                 cached == IF refresh THEN None ELSE CacheLoad(cache, cache_key, now)
                 result == BuiltChains(currency, normalized_requests, market)
                 requests == RequestCount(normalized_requests, market)
             IN  IF cached # None
                 THEN [cache |-> cache,
                       call |-> Record(0, Some(cached[1].stored_at),
                                  Returned([i \in 1..Len(cached[1].payload) |->
                                      ParseOptionsChain(cached[1].payload[i])]))]
                 ELSE IF market.failed
                 THEN [cache |-> cache, call |-> Record(requests, None, DeribitAPIError)]
                 ELSE [cache |-> IF result # << >>
                                 THEN CacheStore(cache, cache_key,
                                          [i \in 1..Len(result) |->
                                               ToSerializable(result[i])], now)
                                 ELSE cache,
                       call |-> Record(requests, None, Returned(result))]

ExpiryArguments ==
    {<<"2024-05-24T08:00:00Z">>, <<"1D">>, <<"1W", "2024-05-24T08:00:00Z">>, <<"soon">>}

Currencies == {"BTC", "ETH"}

deribitFrame == <<directVars, cycleVars, wrapper_call, strategy_manager, scheduler>>

\* a client on the cache directory is asked for chains
call_fetch_options_chain ==
    /\ Len(deribit.calls) < MaxFetches
    /\ \E step \in Steps, expiries \in ExpiryArguments, currency \in Currencies,
          refresh \in BOOLEAN, market \in Markets :
           LET now == deribit.clock + step
               done == fetch_options_chain(deribit.cache, expiries, currency,
                                           "option", refresh, now, market)
           IN  deribit' = [clock |-> now, cache |-> done.cache,
                           calls |-> Append(deribit.calls, done.call)]
    /\ UNCHANGED deribitFrame

NextDeribit == call_fetch_options_chain

SpecDeribit == Init /\ [][NextDeribit]_vars

-----------------------------------------------------------------------------
(* scripts/strategy/strategy_manager.py: StrategyManager.check_mode_transition. *)
(* strategy_manager.table is the trade_history table the manager reads, kept   *)
(* as what its three queries return: the number of rows, the number of rows    *)
(* with status 'win', and the number of days from the first to the last        *)
(* execution_time.  Rows are only ever added.  strategy_manager.check is the   *)
(* last call of check_mode_transition, and good_checks the number of checks in *)
(* a row, up to the last one, that were made in Self-Optimizing mode with      *)
(* Sharpe ratio, win rate and drawdown on target.                              *)

MaxTrades == 31
MaxDays == 9

\* lines 111-115; the Sharpe ratio and the drawdown are in tenths
sharpe_ratio_threshold == 10
win_rate_threshold == 55
max_drawdown_threshold == 100
trade_count_threshold == 30
operation_days_threshold == 7

\* lines 143-176; Sharpe ratio and drawdown are in tenths, the win rate is
\* wins / trade_count * 100 and is compared through WinRateAtLeast
Metrics(table) ==
    [sharpe_ratio |-> IF table.trade_count > 0
                         /\ table.wins * 100 >= win_rate_threshold * table.trade_count
                      THEN 10 ELSE 9,
     wins |-> table.wins,
     max_drawdown |-> IF table.trade_count < trade_count_threshold THEN 80 ELSE 120,
     trade_count |-> table.trade_count,
     operation_days |-> table.days]

\* lines 177-185: the metrics returned when the database cannot be read
FallbackMetrics ==
    [sharpe_ratio |-> 0, wins |-> 0, max_drawdown |-> 1000, trade_count |-> 0,
     operation_days |-> 0]

\* lines 131-185
get_performance_metrics(table, readable) ==
    IF readable THEN Metrics(table) ELSE FallbackMetrics

\* win_rate >= rate, for win_rate = wins / trade_count * 100, or 0.0 without trades
WinRateAtLeast(metrics, rate) ==
    IF metrics.trade_count > 0 THEN metrics.wins * 100 >= rate * metrics.trade_count
    ELSE 0 >= rate

\* lines 195-211: some threshold is breached
Breached(metrics) ==
    \/ metrics.sharpe_ratio < sharpe_ratio_threshold
    \/ ~WinRateAtLeast(metrics, win_rate_threshold)
    \/ metrics.max_drawdown > max_drawdown_threshold
    \/ metrics.trade_count > trade_count_threshold
    \/ metrics.operation_days > operation_days_threshold

\* lines 213-232: the mode and the counter after a check
ModeAfter(mode, count, transition) ==
    IF mode = "Adaptive" /\ transition
    THEN [mode |-> "Self-Optimizing", consecutive_improvement_count |-> 0]
    ELSE IF mode = "Self-Optimizing" /\ ~transition
    THEN IF count + 1 >= 3
         THEN [mode |-> "Adaptive", consecutive_improvement_count |-> 0]
         ELSE [mode |-> mode, consecutive_improvement_count |-> count + 1]
    ELSE IF mode = "Self-Optimizing" /\ transition
    THEN [mode |-> mode, consecutive_improvement_count |-> 0]
    ELSE [mode |-> mode, consecutive_improvement_count |-> count]

\* the module docstring, lines 9-12: the three measures of performance are on
\* target
OnTarget(metrics) ==
    /\ metrics.sharpe_ratio >= sharpe_ratio_threshold
    /\ WinRateAtLeast(metrics, win_rate_threshold)
    /\ metrics.max_drawdown <= max_drawdown_threshold

strategyFrame == <<directVars, cycleVars, wrapper_call, deribit, scheduler>>

\* lines 187-232
check_mode_transition ==
    /\ \E readable \in BOOLEAN :
           LET metrics == get_performance_metrics(strategy_manager.table, readable)
               transition == Breached(metrics)
               before == strategy_manager
               after == ModeAfter(before.mode, before.consecutive_improvement_count,
                                  transition)
               good == before.mode = "Self-Optimizing" /\ OnTarget(metrics)
           IN  strategy_manager' =
                   [mode |-> after.mode,
                    consecutive_improvement_count |-> after.consecutive_improvement_count,
                    table |-> before.table,
                    check |-> [made |-> TRUE, readable |-> readable,
                               transition |-> transition,
                               on_target |-> OnTarget(metrics),
                               mode_before |-> before.mode,
                               count_before |-> before.consecutive_improvement_count],
                    good_checks |-> IF good THEN Min(before.good_checks + 1, 3) ELSE 0]
    /\ UNCHANGED strategyFrame

\* a writer of the table adds the rows of some closed trades
append_trades ==
    /\ \E n \in {10, 11}, won \in BOOLEAN, later \in {0, 8} :
           LET table == strategy_manager.table
           IN  /\ table.trade_count + n <= MaxTrades
               /\ table.days + later <= MaxDays
               /\ strategy_manager' =
                      [strategy_manager EXCEPT
                           !.table = [trade_count |-> table.trade_count + n,
                                      wins |-> IF won THEN table.wins + n ELSE table.wins,
                                      days |-> IF table.trade_count = 0 THEN 1
                                               ELSE table.days + later]]
    /\ UNCHANGED strategyFrame

NextStrategy == check_mode_transition \/ append_trades

SpecStrategy == Init /\ [][NextStrategy]_vars

-----------------------------------------------------------------------------
(* scripts/risk/trade_execution.py: count_open_trades over the trade_history  *)
(* table                                                                      *)

\* lines 143-163: the EXECUTED BUY rows minus the EXECUTED SELL rows, at least 0
count_open_trades(rows) ==
    LET Executed(type) ==
            Cardinality({i \in 1..Len(rows) :
                             rows[i].status = "EXECUTED" /\ rows[i].order_type = type})
        open_trades == Executed("BUY") - Executed("SELL")
    IN  IF open_trades > 0 THEN open_trades ELSE 0

-----------------------------------------------------------------------------
(* bot/infrastructure/scheduler.py: Scheduler and DataChannel.                 *)
(* scheduler.consumers maps a channel to its consumers in registration order,  *)
(* scheduler.queue to the payloads waiting in its asyncio.Queue, and           *)
(* scheduler.tasks are the dispatch tasks created by start.  A task is         *)
(* "subscribing" while it awaits channel.subscribe(), "calling" while it       *)
(* awaits the consumer at `index` of its list with `payload`, and "cancelled"  *)
(* after stop.  A consumer is "ok" or "faulty": a faulty one raises an         *)
(* Exception at every call.  Payloads are numbered in publish order;           *)
(* scheduler.published records each publish and scheduler.delivered, per       *)
(* channel, each call of a consumer as <<payload, index of the consumer>>.     *)

MaxPublished == 2
MaxConsumers == 2
MaxStarts == 2
MaxStops == 1

\* line 21: asyncio.Queue(maxsize=100)
maxsize == 100

ConsumerKinds == {"ok", "faulty"}

schedulerFrame == <<directVars, cycleVars, wrapper_call, deribit, strategy_manager>>

RECURSIVE CountIn(_, _)
CountIn(consumers, channels) ==
    IF channels = {} THEN 0
    ELSE LET channel == CHOOSE c \in channels : TRUE
         IN  Len(consumers[channel]) + CountIn(consumers, channels \ {channel})

\* the number of consumers registered so far, on all channels
Registered(consumers) == CountIn(consumers, Channels)

\* lines 46-47
register_consumer ==
    /\ \E channel \in Channels, consumer \in ConsumerKinds :
           /\ Registered(scheduler.consumers) < MaxConsumers
           /\ scheduler' = [scheduler EXCEPT !.consumers[channel] = Append(@, consumer)]
    /\ UNCHANGED schedulerFrame

\* the channels in the order of self.consumers.items(): those with a consumer
RECURSIVE NewTasks(_)
NewTasks(channels) ==
    IF channels = {} THEN << >>
    ELSE LET channel == CHOOSE c \in channels : TRUE
         IN  <<[channel |-> channel, state |-> "subscribing", payload |-> 0,
                index |-> 0]>> \o NewTasks(channels \ {channel})

\* lines 49-53: one dispatch task for every channel that has a consumer now
start ==
    /\ scheduler.starts < MaxStarts
    /\ scheduler' =
           [scheduler EXCEPT
                !.tasks = @ \o NewTasks({c \in Channels : scheduler.consumers[c] # << >>}),
                !.started = TRUE,
                !.starts = @ + 1]
    /\ UNCHANGED schedulerFrame

\* lines 64-68: every task is cancelled, wherever it stands, and forgotten
stop ==
    /\ scheduler.stops < MaxStops
    /\ scheduler' = [scheduler EXCEPT !.tasks = << >>,
                                      !.started = FALSE,
                                      !.stops = @ + 1]
    /\ UNCHANGED schedulerFrame

\* lines 23-25: queue.put waits while the queue is full
publish ==
    /\ Len(scheduler.published) < MaxPublished
    /\ \E channel \in Channels :
           /\ Len(scheduler.queue[channel]) < maxsize
           /\ LET payload == Len(scheduler.published) + 1
              IN  scheduler' =
                      [scheduler EXCEPT
                           !.queue[channel] = Append(@, payload),
                           !.published = Append(@,
                               [payload |-> payload, channel |-> channel,
                                started |-> scheduler.started,
                                consumers |-> Len(scheduler.consumers[channel]),
                                stops |-> scheduler.stops])]
    /\ UNCHANGED schedulerFrame

\* lines 58-60: the task goes on to the next consumer of the list, calling it
\* with the payload, or back to channel.subscribe() at the end of the list
NextConsumer(s, k) ==
    LET task == s.tasks[k]
        next == task.index + 1
    IN  IF next <= Len(s.consumers[task.channel])
        THEN [s EXCEPT !.tasks[k].state = "calling",
                       !.tasks[k].index = next,
                       !.delivered[task.channel] = Append(@, <<task.payload, next>>)]
        ELSE [s EXCEPT !.tasks[k].state = "subscribing",
                       !.tasks[k].payload = 0,
                       !.tasks[k].index = 0]

\* lines 27-30 and 57: queue.get returns the oldest payload to task k
dispatch_subscribe(k) ==
    /\ k \in 1..Len(scheduler.tasks)
    /\ scheduler.tasks[k].state = "subscribing"
    /\ scheduler.queue[scheduler.tasks[k].channel] # << >>
    /\ LET channel == scheduler.tasks[k].channel
           taken == [scheduler EXCEPT !.queue[channel] = Tail(@),
                                      !.tasks[k].payload = Head(scheduler.queue[channel])]
       IN  scheduler' = NextConsumer(taken, k)
    /\ UNCHANGED schedulerFrame

\* what the loop does when the awaited consumer raised an Exception: line 61
\* catches it and the loop goes on
AfterException(s, k) == NextConsumer(s, k)

\* lines 59-62: the consumer awaited by task k returns or raises
dispatch_consumer_done(k) ==
    /\ k \in 1..Len(scheduler.tasks)
    /\ scheduler.tasks[k].state = "calling"
    /\ LET task == scheduler.tasks[k]
           consumer == scheduler.consumers[task.channel][task.index]
       IN  scheduler' = IF consumer = "faulty" THEN AfterException(scheduler, k)
                        ELSE NextConsumer(scheduler, k)
    /\ UNCHANGED schedulerFrame

MaxTasks == MaxStarts * Cardinality(Channels)

NextScheduler ==
    \/ register_consumer
    \/ start
    \/ stop
    \/ publish
    \/ \E k \in 1..MaxTasks : dispatch_subscribe(k)
    \/ \E k \in 1..MaxTasks : dispatch_consumer_done(k)

SpecScheduler == Init /\ [][NextScheduler]_vars

\* the event loop runs every task that can go on, and consumers finish
SpecSchedulerFair ==
    SpecScheduler /\ \A k \in 1..MaxTasks :
                         WF_vars(dispatch_subscribe(k)) /\ WF_vars(dispatch_consumer_done(k))

-----------------------------------------------------------------------------
(* Properties of analyze_smirk, checked under Spec *)

Analyzed == pc = "analyzed" /\ smirk_call.made

\* the IVs of the contracts of a chain that satisfy Test, in chain order
IVsWhere(options_data, Test(_)) ==
    LET picked == SelectSeq(options_data.contracts, Test)
    IN  [i \in 1..Len(picked) |-> Val(picked[i].implied_volatility)]

\* a contract has a present and positive IV
HasValidIV(c) == c.implied_volatility # << >> /\ c.implied_volatility[1] > 0

\* the OTM-call and OTM-put buckets of a chain under moneyness threshold m
OtmCallBucket(options_data, m) ==
    IVsWhere(options_data,
             LAMBDA c : /\ c.contract_type = "call"
                        /\ HasValidIV(c)
                        /\ c.strike_price * 1000 > Times(options_data.spot_price, Scale + m))

OtmPutBucket(options_data, m) ==
    IVsWhere(options_data,
             LAMBDA c : /\ c.contract_type = "put"
                        /\ HasValidIV(c)
                        /\ c.strike_price * 1000 < Times(options_data.spot_price, Scale - m))

\* C1: the skew metric analyze_smirk computes is mean(OTM call IV) - mean(OTM
\* put IV) when both buckets are non-empty, exactly 0.1 when only the call
\* bucket is, exactly -0.1 when only the put bucket is, and undefined (never 0)
\* when both are empty; it is defined iff at least one bucket is non-empty.
C1_SkewMetric ==
    Analyzed =>
        LET f == smirk_call.frame
            calls == f.otm_call_ivs
            puts == f.otm_put_ivs
        IN  /\ (calls # << >> /\ puts # << >>) =>
                   /\ f.skew_metric # << >>
                   /\ f.skew_metric[1] * Len(calls) * Len(puts)
                          = Sum(calls) * Len(puts) - Sum(puts) * Len(calls)
            /\ (calls # << >> /\ puts = << >>) => f.skew_metric = <<D(100)>>
            /\ (calls = << >> /\ puts # << >>) => f.skew_metric = <<-D(100)>>
            /\ (calls = << >> /\ puts = << >>) =>
                   f.skew_metric = << >> /\ f.skew_metric # <<0>>
            /\ (f.skew_metric # << >>) <=> (calls # << >> \/ puts # << >>)

\* C1 witness: a call bucket of two IVs and a non-empty put bucket, skew 0.2
C1_Witness ==
    /\ Analyzed
    /\ Len(smirk_call.frame.otm_call_ivs) = 2
    /\ Len(smirk_call.frame.otm_put_ivs) = 1
    /\ smirk_call.frame.skew_metric = <<D(200)>>

\* the moneyness threshold the caller supplies through config, 0.02 when absent
SuppliedMoneyness(config) ==
    IF config = NoConfig THEN D(20)
    ELSE IF "moneyness_threshold" \in DOMAIN config THEN config.moneyness_threshold
    ELSE Get(Get(config, "volatility_analysis", EmptyDict), "moneyness_threshold", D(20))

C3_EmptyChainReturns ==
    (Analyzed /\ smirk_call.options_data.contracts = << >>) =>
        /\ ~smirk_call.frame.raised
        /\ smirk_call.frame.result # << >>
        /\ smirk_call.frame.result[1].skewness_metric = << >>
        /\ smirk_call.frame.result[1].details.num_otm_calls = 0
        /\ smirk_call.frame.result[1].details.num_otm_puts = 0

\* the classification of section 4.2 for thresholds b, r, m
Classification(skew, b, r, m) ==
    LET Capped(x) == IF x > D(950) THEN D(950) ELSE x
    IN  IF skew = << >> THEN <<"neutral", D(400)>>
        ELSE IF skew[1] > b THEN <<"bullish", Capped(m + (skew[1] - b) * 2)>>
        ELSE IF skew[1] < r THEN <<"bearish", Capped(m + (r - skew[1]) * 2)>>
        ELSE <<"neutral", m - D(100)>>

\* the config supplies all three thresholds
SuppliesThresholds(config) ==
    /\ config # NoConfig
    /\ "volatility_analysis" \in DOMAIN config
    /\ "smirk_interpretation_thresholds" \in DOMAIN config.volatility_analysis
    /\ DOMAIN config.volatility_analysis.smirk_interpretation_thresholds
           = {"bullish_skew_diff", "bearish_skew_diff", "min_confidence"}

\* C4: with thresholds {bullishSkewDiff, bearishSkewDiff, minConfidence}
\* supplied, the label and confidence computed are those of section 4.2, and a
\* bullish or bearish classification never has confidence above 0.95.
C4_Classification ==
    Analyzed =>
        LET f == smirk_call.frame
        IN  /\ SuppliesThresholds(smirk_call.config) =>
                   LET t == smirk_call.config.volatility_analysis.smirk_interpretation_thresholds
                   IN  <<f.sentiment_label, f.calculated_confidence>>
                           = Classification(f.skew_metric, t.bullish_skew_diff,
                                            t.bearish_skew_diff, t.min_confidence)
            /\ f.sentiment_label \in {"bullish", "bearish"} =>
                   f.calculated_confidence <= D(950)

\* C4 witness: a bullish classification whose linear confidence exceeds the ceiling
C4_Witness ==
    /\ Analyzed
    /\ SuppliesThresholds(smirk_call.config)
    /\ smirk_call.frame.sentiment_label = "bullish"
    /\ smirk_call.frame.calculated_confidence = D(950)
    /\ LET t == smirk_call.config.volatility_analysis.smirk_interpretation_thresholds
       IN  t.min_confidence + (smirk_call.frame.skew_metric[1] - t.bullish_skew_diff) * 2
               > D(950)

\* C5 as stated: the confidence of every classification is in [0,1]
C5_ConfidenceInUnitInterval ==
    Analyzed =>
        /\ smirk_call.frame.calculated_confidence >= 0
        /\ smirk_call.frame.calculated_confidence <= Scale

\* no threshold reaches the classifier: config absent, empty, or without the keys
NoThresholdsSupplied(config) ==
    \/ config \in {NoConfig, EmptyDict}
    \/ /\ "smirk_interpretation_thresholds" \notin DOMAIN config
       /\ Get(Get(config, "volatility_analysis", EmptyDict),
              "smirk_interpretation_thresholds", EmptyDict) = EmptyDict

\* C6 as stated: with no thresholds supplied the label and confidence are those
\* of the explicit defaults 0.02 / -0.02 / 0.6, for every skew value.
C6_DefaultsEquivalence ==
    (Analyzed /\ NoThresholdsSupplied(smirk_call.config)) =>
        <<smirk_call.frame.sentiment_label, smirk_call.frame.calculated_confidence>>
            = Classification(smirk_call.frame.skew_metric, D(20), -D(20), D(600))

-----------------------------------------------------------------------------
(* Properties of the signal generator and of the two end-to-end scenarios,
   checked under SpecPipeline *)

Signalled == pc = "signalled" /\ signal_call.made

\* the configured minimum confidence of a side, 0.7 when not configured
ConfiguredMin(config, key) ==
    IF config = NoConfig THEN D(700)
    ELSE IF "strategy" \notin DOMAIN config THEN D(700)
    ELSE IF key \notin DOMAIN config.strategy THEN D(700)
    ELSE config.strategy[key]

\* C8: a BUY signal is emitted iff the label is bullish and confidence >=
\* bullishConfidenceMin, a SELL signal iff the label is bearish and confidence
\* >= bearishConfidenceMin (both default 0.7); otherwise nothing is emitted, and
\* no HOLD record is ever emitted.
C8_SignalGate ==
    Signalled =>
        LET r == signal_call.smirk_result
            buy == /\ r.sentiment_label = "bullish"
                   /\ r.confidence >= ConfiguredMin(signal_call.config,
                                                    "smirk_bullish_confidence_min")
            sell == /\ r.sentiment_label = "bearish"
                    /\ r.confidence >= ConfiguredMin(signal_call.config,
                                                     "smirk_bearish_confidence_min")
            emitted == signal_call.signal # << >>
        IN  /\ (emitted /\ signal_call.signal[1].signal = 1) <=> buy
            /\ (emitted /\ signal_call.signal[1].signal = -1) <=> sell
            /\ emitted <=> (buy \/ sell)
            /\ emitted => signal_call.signal[1].signal # 0

\* C8 witness: a BUY emitted at a confidence equal to the configured minimum
C8_Witness ==
    /\ Signalled
    /\ signal_call.config # NoConfig
    /\ "strategy" \in DOMAIN signal_call.config
    /\ "smirk_bullish_confidence_min" \in DOMAIN signal_call.config.strategy
    /\ signal_call.smirk_result.sentiment_label = "bullish"
    /\ signal_call.smirk_result.confidence
           = signal_call.config.strategy.smirk_bullish_confidence_min
    /\ signal_call.signal # << >>
    /\ signal_call.signal[1].signal = 1

ThresholdsConfig(b, r, m) ==
    [volatility_analysis |->
        [smirk_interpretation_thresholds |->
            [bullish_skew_diff |-> b, bearish_skew_diff |-> r, min_confidence |-> m]]]

\* the mock chain was analysed under thresholds b, r, m
MockAnalyzed(b, r, m) ==
    /\ pc \in {"analyzed", "signalled"}
    /\ smirk_call.made
    /\ smirk_call.options_data = MockChain
    /\ smirk_call.config = ThresholdsConfig(b, r, m)

\* the signal generator was handed the classification of the analysis at the
\* spot price of the analysis
SignalFromAnalysis ==
    /\ Signalled
    /\ signal_call.spot_price = smirk_call.options_data.spot_price
    /\ signal_call.smirk_result.sentiment_label = smirk_call.frame.sentiment_label
    /\ signal_call.smirk_result.confidence
           = Round2(smirk_call.frame.calculated_confidence)

\* C9 as stated: skew -0.045, label neutral, confidence 0.55, nothing emitted
C9_ScenarioNeutral ==
    MockAnalyzed(D(50), -D(50), D(650)) =>
        /\ smirk_call.frame.skew_metric = <<-D(45)>>
        /\ smirk_call.frame.sentiment_label = "neutral"
        /\ smirk_call.frame.calculated_confidence = D(550)
        /\ (SignalFromAnalysis /\ signal_call.config = NoConfig) =>
               signal_call.signal = << >>

\* C9: for the snapshot with spot 60500, calls 60000/0.70 and 61000/0.68, puts
\* 59000/0.72 and 58000/0.75, no call is above 1.02*spot and both puts are
\* below 0.98*spot, so the skew metric computed is -0.1; with thresholds 0.05 /
\* -0.05 / 0.65 the label computed is bearish with confidence 0.75, and the
\* signal generator, given that classification at spot 60500 and the default
\* minimum 0.7, emits SELL with confidence 0.75 at price 60500.
C9_ScenarioPutsOnly ==
    MockAnalyzed(D(50), -D(50), D(650)) =>
        /\ smirk_call.frame.otm_call_ivs = << >>
        /\ smirk_call.frame.otm_put_ivs = <<D(720), D(750)>>
        /\ smirk_call.frame.skew_metric = <<-D(100)>>
        /\ smirk_call.frame.sentiment_label = "bearish"
        /\ smirk_call.frame.calculated_confidence = D(750)
        /\ (SignalFromAnalysis /\ signal_call.config = NoConfig) =>
               signal_call.signal
                   = <<[price |-> 60500, signal |-> -1, confidence |-> D(750),
                        source |-> "volatility_smirk_strategy"]>>

\* C9 witness: the scenario analysed and its classification handed on
C9_Witness ==
    /\ MockAnalyzed(D(50), -D(50), D(650))
    /\ SignalFromAnalysis
    /\ signal_call.config = NoConfig

BearishMinConfig(x) == [strategy |-> [smirk_bearish_confidence_min |-> x]]

\* C10 as stated: label bearish with confidence 0.66, SELL emitted with
\* confidence 0.66 at price 60500 when bearishConfidenceMin = 0.6
C10_ScenarioBearish066 ==
    MockAnalyzed(D(50), -D(40), D(650)) =>
        /\ smirk_call.frame.sentiment_label = "bearish"
        /\ smirk_call.frame.calculated_confidence = D(660)
        /\ (SignalFromAnalysis /\ signal_call.config = BearishMinConfig(D(600))) =>
               signal_call.signal
                   = <<[price |-> 60500, signal |-> -1, confidence |-> D(660),
                        source |-> "volatility_smirk_strategy"]>>

\* C10: for the same snapshot with thresholds bearish = -0.04 and
\* minConfidence 0.65 the skew metric computed is -0.1, the label computed is
\* bearish with confidence min(0.95, 0.65 + |-0.1 + 0.04| * 2) = 0.77, and the
\* signal generator, given that classification at spot 60500 with
\* bearishConfidenceMin = 0.6, emits SELL with confidence 0.77 at price 60500.
C10_ScenarioBearish077 ==
    MockAnalyzed(D(50), -D(40), D(650)) =>
        /\ smirk_call.frame.skew_metric = <<-D(100)>>
        /\ smirk_call.frame.sentiment_label = "bearish"
        /\ smirk_call.frame.calculated_confidence = D(770)
        /\ (SignalFromAnalysis /\ signal_call.config = BearishMinConfig(D(600))) =>
               signal_call.signal
                   = <<[price |-> 60500, signal |-> -1, confidence |-> D(770),
                        source |-> "volatility_smirk_strategy"]>>

\* C10 witness: the scenario analysed and its classification handed on
C10_Witness ==
    /\ MockAnalyzed(D(50), -D(40), D(650))
    /\ SignalFromAnalysis
    /\ signal_call.config = BearishMinConfig(D(600))

-----------------------------------------------------------------------------
(* Properties of the cycle, checked under SpecCycle *)

\* C7 as stated: the thresholds configured under
\* volatility_analysis.smirk_interpretation_thresholds are the ones applied: the
\* label and confidence of every analysis of the cycle are the classification
\* of its skew under the configured thresholds.
C7_ConfiguredThresholdsApplied ==
    SuppliesThresholds(manager_config) =>
        LET t == manager_config.volatility_analysis.smirk_interpretation_thresholds
        IN  \A i \in 1..Len(analysis_log) :
                <<analysis_log[i].frame.sentiment_label,
                  analysis_log[i].frame.calculated_confidence>>
                    = Classification(analysis_log[i].frame.skew_metric,
                                     t.bullish_skew_diff, t.bearish_skew_diff,
                                     t.min_confidence)


-----------------------------------------------------------------------------
(* Risk engine *)

Sized(fn) == pc = "sized" /\ risk_call.made /\ risk_call.fn = fn

\* x <= y for rationals, by cross-multiplication
AtMost(x, y) == x.n * y.d <= y.n * x.d

\* C11: for every signal strength and every RiskConfig with capital >= 0,
\* compute_risk_budget returns 0 <= allocation <= capital and
\* max_loss = allocation * max_drawdown; kelly_position_size never returns
\* more than capital, whatever the edge and the win probability.
C11_AllocationWithinCapital ==
    /\ Sized("compute_risk_budget") =>
          /\ ~risk_call.outcome.raised
          /\ LET budget == risk_call.outcome.value
                 config == risk_call.config
             IN  /\ 0 <= budget.allocation.n
                 /\ AtMost(budget.allocation, config.capital)
                 /\ budget.max_loss.n * budget.allocation.d * config.max_drawdown.d
                      = budget.allocation.n * config.max_drawdown.n * budget.max_loss.d
    /\ Sized("kelly_position_size") =>
          /\ ~risk_call.outcome.raised
          /\ AtMost(risk_call.outcome.value, risk_call.capital)

\* a budget strictly inside the interval, or a Kelly fraction above 1 cut
\* down to the whole capital
C11_Witness ==
    \/ /\ Sized("compute_risk_budget")
       /\ ~risk_call.outcome.raised
       /\ 0 < risk_call.outcome.value.allocation.n
       /\ ~AtMost(risk_call.config.capital, risk_call.outcome.value.allocation)
       /\ 0 < risk_call.outcome.value.max_loss.n
    \/ /\ Sized("kelly_position_size")
       /\ risk_call.edge.n < 0
       /\ risk_call.capital.n > 0
       /\ ~risk_call.outcome.raised
       /\ risk_call.outcome.value = risk_call.capital

IsNumber(x, k) == x.n = k /\ x.d = 1

\* C12: kelly_position_size returns 0, and divides by no zero, whenever the
\* edge is 0 and whenever the win probability is 0 or 1; hence
\* compute_risk_budget allocates 0 for a signal strength <= 0 and for a
\* signal strength of 1.
C12_DegenerateInputsSizeZero ==
    /\ ( /\ Sized("kelly_position_size")
         /\ \/ IsNumber(risk_call.edge, 0)
            \/ IsNumber(risk_call.win_prob, 0)
            \/ IsNumber(risk_call.win_prob, 1) )
       => /\ ~risk_call.outcome.raised
          /\ IsNumber(risk_call.outcome.value, 0)
    /\ ( /\ Sized("compute_risk_budget")
         /\ \/ risk_call.signal_strength.n <= 0
            \/ IsNumber(risk_call.signal_strength, 1) )
       => /\ ~risk_call.outcome.raised
          /\ IsNumber(risk_call.outcome.value.allocation, 0)

\* win probability 1 with a positive edge and capital; signal strength 1
C12_Witness ==
    \/ /\ Sized("kelly_position_size")
       /\ IsNumber(risk_call.win_prob, 1)
       /\ risk_call.edge.n > 0
       /\ risk_call.capital.n > 0
    \/ /\ Sized("compute_risk_budget")
       /\ IsNumber(risk_call.signal_strength, 1)
       /\ risk_call.config.capital.n > 0

-----------------------------------------------------------------------------
(* Properties of the stages of run_trading_cycle *)

\* the first position of name in calls, 0 if it is not called
FirstCall(calls, name) ==
    IF \E i \in DOMAIN calls : calls[i] = name
    THEN CHOOSE i \in DOMAIN calls :
             calls[i] = name /\ \A j \in DOMAIN calls : calls[j] = name => i <= j
    ELSE 0

\* C13 as stated: the stages run in the order fetch, skew analysis and
\* classification, signal generation, risk sizing, trade recording; a trade is
\* recorded only after a risk budget was computed for its signal.
C13_RiskBudgetBeforeRecording ==
    \A t \in DOMAIN cycle_calls :
        LET calls == cycle_calls[t]
            Before(a, b) ==
                FirstCall(calls, b) # 0 =>
                    FirstCall(calls, a) # 0 /\ FirstCall(calls, a) < FirstCall(calls, b)
        IN  /\ Before("fetch_data_for_symbol", "perform_volatility_analysis")
            /\ Before("perform_volatility_analysis", "generate_trading_signals")
            /\ Before("generate_trading_signals", "execute_trades")
            /\ Before("compute_risk_budget", "execute_trades")

\* what one smirk result contributes to the signals when it is handled alone
RECURSIVE SignalsKept(_)
SignalsKept(queue) ==
    IF queue = << >> THEN << >>
    ELSE LET item == SignalItem(Head(queue))
         IN  (IF ~item.raised /\ item.signal # None THEN <<Val(item.signal)>> ELSE << >>)
                 \o SignalsKept(Tail(queue))

\* what one chain contributes to the results when it is analysed alone
RECURSIVE ResultsKept(_)
ResultsKept(queue) ==
    IF queue = << >> THEN << >>
    ELSE LET call == AnalyzeItem(Head(queue))
         IN  (IF call.frame.result # None THEN <<Val(call.frame.result)>> ELSE << >>)
                 \o ResultsKept(Tail(queue))

StageStep(t, position) == At(t, position) /\ cycle_pc'[t] # position

\* C14: when the analysis or the signal generation raises for one item of its
\* queue, every other item is still handled: the stage handles every item,
\* its output is what the items that did not fail yield, in queue order, and
\* the stage does not raise.
C14_PerItemIsolation ==
    [][\A t \in DOMAIN cycle_pc :
          /\ StageStep(t, "AnalyzingSkew") =>
                /\ Len(analysis_log') = Len(options_data_queue)
                /\ \A i \in DOMAIN options_data_queue :
                       analysis_log'[i].options_data = options_data_queue[i]
                /\ options_data_queue' = << >>
                /\ volatility_analysis_queue'
                       = volatility_analysis_queue \o ResultsKept(options_data_queue)
                /\ cycle_pc'[t] = "GeneratingSignal"
          /\ StageStep(t, "GeneratingSignal") =>
                /\ Len(signal_log') = Len(volatility_analysis_queue)
                /\ \A i \in DOMAIN volatility_analysis_queue :
                       signal_log'[i].smirk_result = volatility_analysis_queue[i]
                /\ volatility_analysis_queue' = << >>
                /\ cycle_signals'[t] = SignalsKept(volatility_analysis_queue)
                /\ signal_queue' = signal_queue \o SignalsKept(volatility_analysis_queue)
                /\ cycle_pc'[t] = "ExecutingTrades"]_vars

\* the first item raised and a later one yielded a signal
C14_Witness ==
    /\ At(MainThread, "ExecutingTrades")
    /\ Len(signal_log) >= 2
    /\ signal_log[1].raised
    /\ \E j \in 2..Len(signal_log) :
           /\ ~signal_log[j].raised
           /\ signal_log[j].signal # None
           /\ cycle_signals[MainThread] = <<Val(signal_log[j].signal)>>

\* every chain of a cycle raised in analyze_smirk and each was still handled
C14_AnalysisWitness ==
    /\ At(MainThread, "GeneratingSignal")
    /\ Len(analysis_log) >= 2
    /\ \A i \in DOMAIN analysis_log : analysis_log[i].frame.raised

-----------------------------------------------------------------------------
(* Properties of the trading loop *)

\* thread t is inside run_trading_cycle, or has passed the loop test and is
\* about to call it
InCycle(t) ==
    /\ t \in DOMAIN cycle_pc
    /\ cycle_pc[t] \in {"Starting", "AnalyzingSkew", "GeneratingSignal", "ExecutingTrades"}

Alive(t) == t \in DOMAIN cycle_pc /\ cycle_pc[t] # "Terminated"

Called(t, name) == \E i \in DOMAIN cycle_calls[t] : cycle_calls[t][i] = name

\* C15: a failure of a collaborator of a stage never propagates out of
\* run_trading_cycle, and the loop survives it: while the running flag is set,
\* every cycle of a loop thread is eventually followed by another one.
C15_LoopSurvives ==
    /\ [](\A t \in DOMAIN cycle_pc : cycle_pc[t] \notin {"Raised", "RetrySleeping"})
    /\ \A t \in LoopThreads :
           [](At(t, "Sleeping") => <>(At(t, "Starting") \/ ~running))

\* a thread is about to start a cycle after one in which analyze_smirk raised
C15_Witness ==
    \E t \in DOMAIN cycle_pc :
        /\ IsLoopThread(t)
        /\ cycle_pc[t] = "Starting"
        /\ Called(t, "display_portfolio")
        /\ analysis_log # << >>
        /\ analysis_log[1].frame.raised

\* C16 as stated: after any sequence of start and stop calls at most one
\* run_trading_cycle is executing and at most one trading-loop thread is alive.
C16_CyclesNeverOverlap ==
    /\ Cardinality({t \in DOMAIN cycle_pc : InCycle(t)}) <= 1
    /\ Cardinality({t \in DOMAIN cycle_pc : Alive(t)}) <= 1

\* C17: stop_automated_trading cancels no cycle in flight, which runs to
\* completion; while the flag stays cleared no thread starts a new cycle, and
\* every loop thread eventually terminates unless the loop is started again.
C17_StopIsGraceful ==
    /\ [][running /\ ~running' => cycle_pc' = cycle_pc]_vars
    /\ [][\A t \in DOMAIN cycle_pc :
              cycle_pc[t] # "Starting" /\ cycle_pc'[t] = "Starting" => running]_vars
    /\ \A t \in LoopThreads :
           /\ [](InCycle(t) /\ ~running => <>At(t, "Sleeping"))
           /\ [](t \in DOMAIN cycle_pc /\ ~running => <>(At(t, "Terminated") \/ running))

\* the flag is cleared and a thread that completed a cycle has terminated
C17_Witness ==
    /\ ~running
    /\ \E t \in DOMAIN cycle_pc :
           /\ IsLoopThread(t)
           /\ cycle_pc[t] = "Terminated"
           /\ Called(t, "display_portfolio")

-----------------------------------------------------------------------------
(* Properties of trade execution and of the fetch *)

ConfiguredMaxTrades ==
    IF "trading" \in DOMAIN manager_config
           /\ "max_concurrent_trades" \in DOMAIN manager_config.trading
    THEN manager_config.trading.max_concurrent_trades
    ELSE 1

\* C18: one run_trading_cycle records at most max_concurrent_trades trades
\* (default 1) whatever the number of signals, and records none when the cycle
\* produced no signal; rows are written by no other step.
C18_TradesPerCycleBounded ==
    [][/\ \A t \in DOMAIN cycle_pc :
              StageStep(t, "ExecutingTrades") =>
                  /\ Len(trade_history') - Len(trade_history) <= ConfiguredMaxTrades
                  /\ cycle_signals[t] = << >> => trade_history' = trade_history
       /\ trade_history' # trade_history =>
              \E t \in DOMAIN cycle_pc : StageStep(t, "ExecutingTrades")]_vars

\* a cycle with two signals and max_concurrent_trades 1 recorded one trade and
\* left the other signal on the queue
C18_Witness ==
    /\ At(MainThread, "Idle")
    /\ Len(cycle_signals[MainThread]) >= 2
    /\ execution_log.made
    /\ execution_log.max_trades = 1
    /\ Len(execution_log.returned) = 1
    /\ Len(trade_history) = 1
    /\ signal_queue # << >>

Count(seq, Test(_)) == Cardinality({i \in DOMAIN seq : Test(seq[i])})

\* C19: when record_trade returns no id the trade is not in the list
\* execute_trades returns and not put on trade_queue, it keeps status PENDING
\* and has no execution id, and no second write is attempted for it in that
\* cycle.
C19_FailedWriteDropsTrade ==
    [][\A t \in DOMAIN cycle_pc :
          StageStep(t, "ExecutingTrades") /\ execution_log'.made =>
              LET log == execution_log'
                  Written(a) == a.trade_id # << >>
              IN  /\ Len(log.attempts)
                         = Count(log.signals, LAMBDA g : g.signal \in {1, -1})
                  /\ \A i \in DOMAIN log.attempts :
                         ~Written(log.attempts[i]) =>
                             /\ log.attempts[i].trade.status = "PENDING"
                             /\ log.attempts[i].trade.execution_id = << >>
                             /\ \A j \in DOMAIN log.returned :
                                    log.returned[j] # log.attempts[i].trade
                  /\ Len(log.returned) = Count(log.attempts, Written)
                  /\ \A j \in DOMAIN log.returned :
                         /\ log.returned[j].status = "EXECUTED"
                         /\ log.returned[j].execution_id # << >>
                  /\ trade_queue' = trade_queue \o log.returned
                  /\ Len(trade_history') = Len(trade_history) + Count(log.attempts, Written)]_vars

\* of two writes of one cycle the first failed and the second succeeded
C19_Witness ==
    /\ execution_log.made
    /\ Len(execution_log.attempts) = 2
    /\ execution_log.attempts[1].trade_id = << >>
    /\ execution_log.attempts[2].trade_id # << >>
    /\ Len(trade_queue) = 1

RequestsSent == fetch_log.made /\ fetch_log.api_key_set

Succeeded == {i \in DOMAIN fetch_log.responses : "failed" \notin DOMAIN fetch_log.responses[i]}

\* the fetch failed for every expiry requested, and at least one was requested
FetchFailedEverywhere ==
    RequestsSent /\ fetch_log.expiries # << >> /\ Succeeded = {}

\* the chains handed to analyze_smirk so far in this cycle
Analysed == [i \in DOMAIN analysis_log |-> analysis_log[i].options_data]

AnalysisDone == cycle_pc[MainThread] \in {"GeneratingSignal", "ExecutingTrades"}

\* the chains of the succeeded expiries, in the order of the requests
RECURSIVE SucceededChains(_)
SucceededChains(responses) ==
    IF responses = << >> THEN << >>
    ELSE (IF "failed" \in DOMAIN Head(responses) THEN << >> ELSE <<Head(responses)>>)
             \o SucceededChains(Tail(responses))

-----------------------------------------------------------------------------
(* The portfolio and the executed trades, checked under SpecStages.  Every   *)
(* trade that execute_trades marks EXECUTED is put on trade_queue, which no  *)
(* method reads, so trade_queue holds the executed trades in order.          *)

\* the cash left after the trades, a BUY paying and a SELL receiving
\* price * quantity
RECURSIVE CashAfter(_, _)
CashAfter(cash, trades) ==
    IF trades = << >> THEN cash
    ELSE LET trade == Head(trades)
             amount == trade.price * trade.quantity
         IN  CashAfter(IF trade.order_type = "BUY" THEN cash - amount ELSE cash + amount,
                       Tail(trades))

\* C21: every trade that reaches status EXECUTED changes the portfolio: the
\* cash of the portfolio is the initial balance minus the costs of the executed
\* BUYs plus the proceeds of the executed SELLs
C21_ExecutedTradesChangePortfolio ==
    portfolio_tracker.balance = CashAfter(INITIAL_BALANCE, trade_queue)

-----------------------------------------------------------------------------
(* Properties of the retry decorators, checked under SpecRetry *)

WrapperOf(decorator) ==
    /\ wrapper_call.made
    /\ wrapper_call.decorator = decorator
    /\ wrapper_call.max_tries >= 1

WrapperEnded == wrapper_call.position = "Ended"

\* the call raised an exception the decorator was told to retry on
ListedFailure(call) == call.raised /\ Caught(wrapper_call.filter, call.exception)

LastCall == wrapper_call.calls[Len(wrapper_call.calls)]

\* C22: a function wrapped by retry(max_tries = n >= 1) is called at most n
\* times and only after listed failures; a success ends the wrapper with the
\* result of that call; n listed failures end it with a RetryError carrying
\* the last exception; the number of sleeps is the number of listed failures,
\* except that the n-th failure is followed by no sleep
C22_RetryUntilFirstSuccess ==
    WrapperOf("retry") =>
        LET calls == wrapper_call.calls
            n == wrapper_call.max_tries
            failures == Cardinality({i \in 1..Len(calls) : ListedFailure(calls[i])})
        IN  /\ Len(calls) <= n
            /\ \A i \in 1..(Len(calls) - 1) : ListedFailure(calls[i])
            /\ Len(wrapper_call.sleeps) = Min(failures, n - 1)
            /\ WrapperEnded =>
                   /\ calls # << >>
                   /\ ~LastCall.raised => wrapper_call.outcome = Returned(LastCall.value)
                   /\ ListedFailure(LastCall) =>
                          /\ Len(calls) = n
                          /\ wrapper_call.outcome = RetryError(Some(LastCall.exception))
            /\ ~WrapperEnded => \A i \in 1..Len(calls) : ListedFailure(calls[i])

\* two failures, two sleeps, then the success of the third call is returned
C22_Witness ==
    /\ WrapperOf("retry")
    /\ WrapperEnded
    /\ wrapper_call.max_tries = 3
    /\ Len(wrapper_call.calls) = 3
    /\ Len(wrapper_call.sleeps) = 2
    /\ wrapper_call.outcome = Returned(DataList)

\* the call returned a value the validator rejects
Rejected(call) == ~call.raised /\ ~Validates(wrapper_call.filter, call.value)

\* C23: a function wrapped by retry_with_result(max_tries = n >= 1) is called
\* again only after a rejected result; the first accepted result is returned;
\* when all n results are rejected the n-th result is returned, and the wrapper
\* never raises RetryError
C23_LastResultReturned ==
    WrapperOf("retry_with_result") =>
        LET calls == wrapper_call.calls
            n == wrapper_call.max_tries
        IN  /\ Len(calls) <= n
            /\ \A i \in 1..(Len(calls) - 1) : Rejected(calls[i])
            /\ WrapperEnded =>
                   /\ calls # << >>
                   /\ wrapper_call.outcome.raised =>
                          wrapper_call.outcome.exception # "RetryError"
                   /\ ~LastCall.raised => wrapper_call.outcome = Returned(LastCall.value)
                   /\ Rejected(LastCall) => Len(calls) = n
            /\ ~WrapperEnded => \A i \in 1..Len(calls) : Rejected(calls[i])

\* three rejected results: the third one, the empty list, is returned
C23_Witness ==
    /\ WrapperOf("retry_with_result")
    /\ WrapperEnded
    /\ wrapper_call.max_tries = 3
    /\ Len(wrapper_call.calls) = 3
    /\ \A i \in 1..3 : Rejected(wrapper_call.calls[i])
    /\ wrapper_call.calls[1] = Returned(None)
    /\ wrapper_call.outcome = Returned(EmptyList)

-----------------------------------------------------------------------------
(* Properties of the Deribit client's cache, checked under SpecDeribit *)

SameArguments(a, b) ==
    /\ a.expiries = b.expiries
    /\ a.currency = b.currency
    /\ a.kind = b.kind

\* call i returned chains
SuccessfulFetch(i) == ~deribit.calls[i].outcome.raised

\* call j follows the successful fetch i with the same arguments within the TTL,
\* and no successful fetch with these arguments lies between them
FollowsWithinTTL(i, j) ==
    /\ i < j
    /\ SuccessfulFetch(i)
    /\ SameArguments(deribit.calls[i], deribit.calls[j])
    /\ deribit.calls[j].at - deribit.calls[i].at <= cache_ttl
    /\ \A k \in (i + 1)..(j - 1) :
           ~(SuccessfulFetch(k) /\ SameArguments(deribit.calls[k], deribit.calls[j]))

\* C24: a call with refresh=False that follows a successful fetch with the same
\* currency, kind and expiries within the TTL sends no HTTP request and returns
\* the chains of that fetch; no entry older than the TTL is served; a call with
\* refresh=True sends HTTP requests
C24_CacheServesRepeatedFetch ==
    \A j \in 1..Len(deribit.calls) :
        LET call == deribit.calls[j]
        IN  /\ \A i \in 1..(j - 1) :
                   FollowsWithinTTL(i, j) /\ ~call.refresh =>
                       /\ call.http_requests = 0
                       /\ call.outcome = deribit.calls[i].outcome
            /\ call.from_cache # None => call.at - call.from_cache[1] <= cache_ttl
            /\ call.refresh /\ call.outcome # Raises("ValueError") =>
                   call.http_requests > 0

-----------------------------------------------------------------------------
(* Properties of the StrategyManager, checked under SpecStrategy *)

\* the mode and the counter are what the last check made of them
TwoModeMachine ==
    LET check == strategy_manager.check
        mode == strategy_manager.mode
        count == strategy_manager.consecutive_improvement_count
    IN  /\ count \in 0..2
        /\ mode = "Adaptive" => count = 0
        /\ check.made =>
               /\ check.mode_before = "Adaptive" =>
                      (mode = "Self-Optimizing" <=> check.transition)
               /\ check.mode_before = "Self-Optimizing" =>
                      /\ mode = "Adaptive" <=> (~check.transition /\ check.count_before = 2)
                      /\ check.transition => count = 0

\* C25: check_mode_transition is a two-mode machine (Adaptive to
\* Self-Optimizing on any breached threshold, back on the third consecutive
\* check without one, the counter in 0..2 and 0 in Adaptive mode), and
\* sustained good performance in Self-Optimizing mode leads back to Adaptive:
\* the manager is never still Self-Optimizing after three checks in a row with
\* Sharpe ratio, win rate and drawdown on target
C25_GoodPerformanceLeadsBackToAdaptive ==
    /\ TwoModeMachine
    /\ ~(strategy_manager.mode = "Self-Optimizing" /\ strategy_manager.good_checks >= 3)

-----------------------------------------------------------------------------
(* Properties of execute_trades and of the queues between the stages, checked *)
(* under SpecStages                                                           *)

\* C26: the signals execute_trades takes are those with the highest confidence
\* among all pending signals: no signal it leaves on the queue has a higher
\* confidence than a signal it took
C26_HighestConfidenceFirst ==
    execution_log.made =>
        \A i \in 1..Len(execution_log.signals), j \in 1..Len(signal_queue) :
            execution_log.signals[i].confidence >= signal_queue[j].confidence

\* the queues that feed a stage
StageQueuesEmpty ==
    /\ options_data_queue = << >>
    /\ volatility_analysis_queue = << >>
    /\ signal_queue = << >>

\* C27: every trade recorded in a cycle comes from a signal generated in that
\* same cycle, and when run_trading_cycle has returned the queues that feed
\* the stages are empty, so that nothing is left for a later cycle
C27_NothingCarriedOver ==
    /\ \A t \in DOMAIN cycle_pc : At(t, ReturnPoint(t)) => StageQueuesEmpty
    /\ execution_log.made =>
           \A i \in 1..Len(execution_log.signals) :
               \E t \in DOMAIN cycle_signals :
                   \E j \in 1..Len(cycle_signals[t]) :
                       execution_log.signals[i] = cycle_signals[t][j]

\* C28: for every trade execute_trades returns with status EXECUTED, the row
\* of trade_history with its id has the same status and execution id, so that
\* count_open_trades over the table counts the trades that were executed
C28_StoredRowMatchesReturnedTrade ==
    /\ execution_log.made =>
           \A i \in 1..Len(execution_log.returned) :
               LET trade == execution_log.returned[i]
                   row == trade_history[trade.execution_id[1]]
               IN  /\ row.status = trade.status
                   /\ row.execution_id = trade.execution_id
    /\ count_open_trades(trade_history) = count_open_trades(trade_queue)

-----------------------------------------------------------------------------
(* Monotonicity of the risk budget, checked under SpecRisk *)

InUnitInterval(x) == RLe(Zero, x) /\ RLe(x, One)

\* C29: the allocation of compute_risk_budget is non-decreasing in the signal
\* strength: a call with strength s2 in [0,1] allocates at least what the same
\* configuration gets at any strength s1 in [0,1] with s1 <= s2
C29_AllocationMonotone ==
    Sized("compute_risk_budget") /\ InUnitInterval(risk_call.signal_strength) =>
        \A s1 \in SignalStrengths :
            InUnitInterval(s1) /\ RLe(s1, risk_call.signal_strength) =>
                LET lower == compute_risk_budget(s1, risk_call.config)
                IN  /\ ~lower.raised
                    /\ ~risk_call.outcome.raised
                    /\ RLe(lower.value.allocation, risk_call.outcome.value.allocation)

-----------------------------------------------------------------------------
(* Properties of the Scheduler, checked under SpecSchedulerFair.               *)

\* no consumer of the channel was called twice with the same payload
DeliveredOnce(channel) ==
    \A a, b \in 1..Len(scheduler.delivered[channel]) :
        scheduler.delivered[channel][a] = scheduler.delivered[channel][b] => a = b

\* a payload reaches the consumers of the channel in registration order
RegistrationOrder(channel) ==
    \A a, b \in 1..Len(scheduler.delivered[channel]) :
        (a < b /\ scheduler.delivered[channel][a][1] = scheduler.delivered[channel][b][1])
            => scheduler.delivered[channel][a][2] < scheduler.delivered[channel][b][2]

\* a consumer of the channel receives the payloads in publish order
PublishOrder(channel) ==
    \A a, b \in 1..Len(scheduler.delivered[channel]) :
        (a < b /\ scheduler.delivered[channel][a][2] = scheduler.delivered[channel][b][2])
            => scheduler.delivered[channel][a][1] < scheduler.delivered[channel][b][1]

OrderlyDelivery ==
    \A channel \in Channels :
        /\ DeliveredOnce(channel)
        /\ RegistrationOrder(channel)
        /\ PublishOrder(channel)
        /\ Len(scheduler.queue[channel]) <= 100

\* payload k was published while the scheduler was started, to a channel that
\* had consumers
PublishedInScope(k) ==
    /\ k <= Len(scheduler.published)
    /\ scheduler.published[k].started
    /\ scheduler.published[k].consumers > 0

\* every consumer the channel had when payload k was published was called with it
DeliveredToAll(k) ==
    /\ k <= Len(scheduler.published)
    /\ \A i \in 1..scheduler.published[k].consumers :
           \E a \in 1..Len(scheduler.delivered[scheduler.published[k].channel]) :
               scheduler.delivered[scheduler.published[k].channel][a] = <<k, i>>

StoppedSince(k) ==
    /\ k <= Len(scheduler.published)
    /\ scheduler.stops > scheduler.published[k].stops

\* C30: every payload published, while the scheduler is started, to a channel
\* with registered consumers is delivered once to each of its consumers, in
\* registration order and payloads in publish order, whatever a consumer
\* raises, and a channel queue never holds more than 100 payloads.
C30_EveryPayloadDeliveredInOrder ==
    /\ []OrderlyDelivery
    /\ \A k \in 1..MaxPublished :
           PublishedInScope(k) ~> (DeliveredToAll(k) \/ StoppedSince(k))

====
